---- MODULE Spec2Model ----
(***************************************************************************)
(* Work-order synchronisation of the operations dashboard.                 *)
(*                                                                         *)
(* Two implementations of the sync engine live in the repository and both  *)
(* work on the same localStorage keys 'workOrders' and 'progressData':     *)
(*   - the object WorkOrderSync of src/js/workOrderSync.js (specification  *)
(*     Spec, and LiveSpec with the fairness of the event loop);            *)
(*   - the class WorkOrderSync of src/unnamed/part_003 (specification      *)
(*     SpecCls).                                                           *)
(* The remote endpoint is an environment: each outstanding request is      *)
(* answered by a transport failure, by {success:false} or by a successful  *)
(* answer whose content is drawn from a bounded set.                       *)
(*                                                                         *)
(* Time is counted in seconds.  A pending setTimeout is a countdown that   *)
(* Tick decrements; a timer whose countdown is 0 is due and may fire at    *)
(* that tick or later (timers never fire early).                           *)
(***************************************************************************)
EXTENDS Integers, Sequences, FiniteSets, TLC

\* ------------------------------------------------------------------ bounds
\* requests of one kind (pull, pushWorkOrders, syncProgress, ...) in flight
MaxInflight == 1
\* entries of conversationHistory up to which the dashboard chat is sent to
MaxHistory == 22
\* messages a chat manager is sent
MaxMessages == 4
\* rows of the sheet 'Repair Tickets'
MaxTickets == 2

\* ------------------------------------------------------- program constants
\* setTimeout(..., 2000) of debouncedSync, in seconds
DebounceDelay == 2
\* cacheTimeout of the class ProgressWidget, 30000 ms, in steps of 10 seconds
CacheTimeout == 3

\* --------------------------------------------------------------- data sets
WoIds == {"W1", "W2"}
\* the descriptive fields of a work order, abstracted to a revision
Revs == {1, 2}
WorkOrder == [woNumber : WoIds, rev : Revs]

\* the work-order arrays of the model: every order of every choice of work
\* orders with different woNumbers
WoLists ==
    {<<>>} \cup {<<x>> : x \in WorkOrder}
           \cup {<<p[1], p[2]>> : p \in {q \in WorkOrder \X WorkOrder :
                                                q[1].woNumber # q[2].woNumber}}
\* the arrays saved and answered where the contents do not matter
FewLists == {<<>>, <<[woNumber |-> "W1", rev |-> 1]>>}

\* one progress object ({items: [...]}) per work order; NoProg: no entry
NoProg == "none"
Progs == {"p1", "p2"}
ProgressMaps == [WoIds -> Progs \cup {NoProg}]
EmptyProgress == [w \in WoIds |-> NoProg]
\* the progress objects saved and answered where the contents do not matter
FewProgress == {EmptyProgress, [w \in WoIds |-> IF w = "W1" THEN "p1" ELSE NoProg]}
\* Object.keys(progressData)
Keys(pd) == {w \in WoIds : pd[w] # NoProg}

\* config.interval values of the settings modal, and one unparsable value
Intervals == {"manual", "15", "60", "abc"}
Urls == {"", "URL"}

VARIABLES
    \* ---- localStorage
    workOrders,      \* key 'workOrders'
    progressData,    \* key 'progressData'
    garbled,         \* the keys whose stored text JSON.parse rejects
    cache,           \* this.cache of the class ProgressWidget (src/unnamed/part_004)
    hours,           \* the line items, and the hours of their progress records,
                     \* of the work order a summarizer is applied to
    \* ---- object WorkOrderSync (src/js/workOrderSync.js)
    enabled,         \* config.enabled
    sheetUrl,        \* config.sheetUrl
    interval,        \* config.interval
    lastSync,        \* config.lastSync and key 'workOrderSyncLastSync'; 0 is null
    syncInProgress,  \* config.syncInProgress
    syncTimer,       \* minutes of the setInterval the handle names, 0 when null
    armed,           \* minutes of the setInterval timers not cleared, oldest first
    timeouts,        \* countdowns of the pending setTimeout callbacks of debouncedSync
    online,          \* navigator.onLine
    syncs,           \* sync() invocations suspended at an await
    pulls,           \* pull() invocations awaiting getAll
    pushes,          \* pushWorkOrders() invocations awaiting syncWorkOrders
    progReqs,        \* syncProgress() invocations awaiting the post, with payload
    calls,           \* testConnection, initializeSheets, getSummary and
                     \* updateProgressItem invocations awaiting their request
    \* ---- class WorkOrderSync (src/unnamed/part_003)
    useGoogleSheets, \* this.useGoogleSheets
    clsLastSync,     \* key 'workOrderLastSync'; 0 is absent
    pendingWorkOrderSync,  \* key 'pendingWorkOrderSync'
    pendingProgressSync,   \* key 'pendingProgressSync'
    clsOps,          \* class operations suspended at an await
    \* ---- the remote endpoint (Apps Script web app)
    endpoint,        \* the deployed script and its spreadsheet
    \* ---- a second browser with the same object, on the same endpoint
    me,              \* the client whose cache and object the variables above
                     \* hold: "A" or "B"
    peer,            \* the cache and the object of the other client
    \* ---- the dashboard and the chat managers
    app,             \* the chat of the dashboard (src/js/app.js): its
                     \* conversationHistory and the requests at the proxy
    chat,            \* the ChatManager of src/chat.js and the one of
                     \* src/js/chat.js: busy flag, messages, pending call,
                     \* and the text of the element chatInput
    \* ---- the spreadsheet of src/repair-tickets.gs
    repair,          \* the sheet 'Repair Tickets' and the clock of the script
    \* ---- observation
    since,           \* seconds since the last saveWorkOrders (save) and since the
                     \* last saveWorkOrders or saveProgressData (mutation), each
                     \* capped at DebounceDelay
    ret              \* what the last step did: operation, trigger, returned value

vars == <<workOrders, progressData, enabled, sheetUrl, interval, lastSync,
          syncInProgress, syncTimer, armed, timeouts, online, syncs, pulls, pushes,
          progReqs, calls, useGoogleSheets, clsLastSync, pendingWorkOrderSync,
          pendingProgressSync, clsOps, endpoint, me, peer, garbled, cache, hours,
          app, chat, repair, since, ret>>

objVars == <<enabled, sheetUrl, interval, lastSync, syncInProgress, syncTimer, armed,
             timeouts, online, syncs, pulls, pushes, progReqs, since>>
clsVars == <<useGoogleSheets, clsLastSync, pendingWorkOrderSync,
             pendingProgressSync, clsOps>>
netVars == <<me, peer>>
sideVars == <<app, chat, repair>>
auxVars == <<garbled, cache, hours, sideVars>>
extVars == <<endpoint, netVars, calls, auxVars>>

\* what the steps of the object leave alone
objFrame == UNCHANGED <<clsVars, extVars>>

\* What a step leaves in ret:
\*   op      the operation that ran, via what called it ("response": the
\*           operation resumed after an await);
\*   answer  what the endpoint answered in this step ("" in a call step);
\*   result  "pending" when the operation is suspended at an await, else
\*           what it returned: "success" ({success: true} or the remote JSON
\*           with success true), "failed" ({success: false, error}), a
\*           reason ({success: false, reason}), "none" (undefined);
\*   ids     the woNumbers the operation was called with;
\*   got     the work orders an Ok answer to getAll carried.
Call(op, via, result, ids) ==
    [op |-> op, via |-> via, answer |-> "", result |-> result, ids |-> ids,
     got |-> <<>>]
Resp(op, answer, result, ids, got) ==
    [op |-> op, via |-> "response", answer |-> answer, result |-> result,
     ids |-> ids, got |-> got]

\* new Date().toISOString(): a time stamp that differs from the stored one
NewStamp(old) == IF old = 1 THEN 2 ELSE 1

\* the woNumbers of an array of work orders
WoNumbers(list) == {list[i].woNumber : i \in 1..Len(list)}

\* the timers the runtime holds when the handle names timer t and nothing
\* else was armed
ArmedBy(t) == IF t = 0 THEN <<>> ELSE <<t>>

\* s without its i-th element
RemoveAt(s, i) == SubSeq(s, 1, i - 1) \o SubSeq(s, i + 1, Len(s))

\* the sum of a sequence of numbers
RECURSIVE Sum(_)
Sum(ns) == IF ns = <<>> THEN 0 ELSE Head(ns) + Sum(Tail(ns))

\* ------------------------------------------------------------------ text
\* a JavaScript string is the sequence of its characters
UpperCase == <<"A", "B", "C", "D", "E", "F", "G", "H", "I", "J", "K", "L", "M",
               "N", "O", "P", "Q", "R", "S", "T", "U", "V", "W", "X", "Y", "Z">>
LowerCase == <<"a", "b", "c", "d", "e", "f", "g", "h", "i", "j", "k", "l", "m",
               "n", "o", "p", "q", "r", "s", "t", "u", "v", "w", "x", "y", "z">>

\* String.prototype.toLowerCase
toLowerCase(str) ==
    [i \in 1..Len(str) |->
        IF \E k \in 1..Len(UpperCase) : UpperCase[k] = str[i]
        THEN LowerCase[CHOOSE k \in 1..Len(UpperCase) : UpperCase[k] = str[i]]
        ELSE str[i]]

\* the positions (0-based) where sub occurs in str
Occurrences(str, sub) ==
    {k \in 0..(Len(str) - Len(sub)) : SubSeq(str, k + 1, k + Len(sub)) = sub}

\* String.prototype.includes
includes(str, sub) == Occurrences(str, sub) # {}


\* ========================================================================
\* Object WorkOrderSync (src/js/workOrderSync.js)
\* ========================================================================

\* the answers of the remote endpoint to a request: the transport fails
\* (fetch rejects or the status is not 2xx), or a JSON answer arrives with
\* success false, or with success true
NetErr == "neterr"
AppFail == "fail"
Ok == "ok"
PostAnswers == {NetErr, AppFail, Ok}

\* the answers to getAll; workOrders and progressData matter when kind is Ok
GetAllAnswers(lists, maps) ==
    [kind : {Ok}, workOrders : lists, progressData : maps]
    \cup [kind : {NetErr, AppFail}, workOrders : {<<>>}, progressData : {EmptyProgress}]

\* ========================================================================
\* The remote endpoint: src/google-sheets-setup/Code.gs and the script
\* embedded in src/chat.js
\* ========================================================================

GsScript == "Code.gs"
ChScript == "chat.js"

\* wo.lineItems: part of the fields that rev stands for
LineItems(wo) == IF wo.rev = 1 THEN <<>> ELSE <<"a", "b">>

\* a row of the WorkOrders sheet; stamp is the timestamp column the handler
\* writes (lastUpdated in Code.gs, lastModified in chat.js)
SheetRow(wo, now) == [woNumber |-> wo.woNumber, rev |-> wo.rev, stamp |-> now]

\* the rows of the LineItems sheet for one work order
ItemRows(wo) ==
    [k \in 1..Len(LineItems(wo)) |->
        [woNumber |-> wo.woNumber, lineNumber |-> k, itemName |-> LineItems(wo)[k]]]

\* new Date().toISOString() at the start of a handler
Stamped(r) == [r EXCEPT !.now = NewStamp(r.now)]

\* mutant: saveWorkOrders that finds no existing row
GsExistingRowNone(rows, woNumber) == 0

\* Code.gs saveWorkOrders: existingMap[woNumber], the row number of the last
\* row with that woNumber; 0 for undefined
GsExistingRow(rows, woNumber) ==
    IF \E i \in 1..Len(rows) : rows[i].woNumber = woNumber
    THEN CHOOSE i \in 1..Len(rows) :
            /\ rows[i].woNumber = woNumber
            /\ \A j \in (i + 1)..Len(rows) : rows[j].woNumber # woNumber
    ELSE 0

\* Code.gs saveWorkOrders, one turn of workOrders.forEach; existing is the
\* sheet as read before the loop
GsSaveOne(r, existing, wo) ==
    LET e == GsExistingRow(existing, wo.woNumber)
        row == SheetRow(wo, r.now)
    IN  [r EXCEPT
            !.wo = IF e > 0 THEN [r.wo EXCEPT ![e] = row] ELSE Append(r.wo, row),
            !.li = IF Len(LineItems(wo)) > 0
                   THEN SelectSeq(r.li, LAMBDA x : x.woNumber # wo.woNumber)
                            \o ItemRows(wo)
                   ELSE r.li]

RECURSIVE GsSaveAll(_, _, _)
GsSaveAll(r, existing, batch) ==
    IF batch = <<>> THEN r
    ELSE GsSaveAll(GsSaveOne(r, existing, Head(batch)), existing, Tail(batch))

\* Code.gs saveWorkOrders(workOrders)
GsSaveWorkOrders(r, batch) == GsSaveAll(Stamped(r), r.wo, batch)

\* Code.gs deleteWorkOrder(woNumber)
GsDeleteWorkOrder(r, woNumber) ==
    [r EXCEPT !.wo = SelectSeq(r.wo, LAMBDA x : x.woNumber # woNumber),
              !.li = SelectSeq(r.li, LAMBDA x : x.woNumber # woNumber),
              !.pd = [r.pd EXCEPT ![woNumber] = NoProg]]

\* clearAllData of either script
ClearAllData(r) == [r EXCEPT !.wo = <<>>, !.li = <<>>, !.pd = EmptyProgress]

RECURSIVE AllItemRows(_)
AllItemRows(list) ==
    IF list = <<>> THEN <<>> ELSE ItemRows(Head(list)) \o AllItemRows(Tail(list))

\* chat.js syncWorkOrders(workOrders): delete every row, insert the array
ChSyncWorkOrders(r, list) ==
    LET t == Stamped(r)
    IN  [t EXCEPT !.wo = [i \in 1..Len(list) |-> SheetRow(list[i], t.now)],
                  !.li = AllItemRows(list)]

\* chat.js getWorkOrders: one work order per row of the WorkOrders sheet
ChGetWorkOrders(r) ==
    [i \in 1..Len(r.wo) |-> [woNumber |-> r.wo[i].woNumber, rev |-> r.wo[i].rev]]

\* chat.js fullSync(data): syncWorkOrders, then syncProgress for every key of
\* data.progressData
ChFullSync(r, list, pd) ==
    [ChSyncWorkOrders(r, list) EXCEPT
        !.pd = [w \in WoIds |-> IF pd[w] # NoProg THEN pd[w] ELSE r.pd[w]]]

\* chat.js getAllData
ChGetAllData(r) ==
    [kind |-> Ok, workOrders |-> ChGetWorkOrders(r), progressData |-> r.pd]

\* a spreadsheet with its sheets initialized and no rows
EmptySheets(script) ==
    [script |-> script, wo |-> <<>>, li |-> <<>>, pd |-> EmptyProgress, now |-> 1]

\* the cache and the object of a client that has done nothing yet
Client(wos) ==
    [workOrders |-> wos, progressData |-> EmptyProgress, lastSync |-> 0,
     syncInProgress |-> FALSE, syncs |-> <<>>]

\* a field that an object does not have (undefined)
Absent == -1

\* item names
NameLabor == <<"L", "a", "b", "o", "r">>
NameMulch == <<"M", "u", "l", "c", "h">>
NameInstallLaborUpper == <<"I", "N", "S", "T", "A", "L", "L", " ", "L", "a", "b", "o", "r">>
NameInstallLaborLower == <<"i", "n", "s", "t", "a", "l", "l", " ", "l", "a", "b", "o", "r">>
NameManHours == <<"M", "a", "n", " ", "H", "o", "u", "r", "s">>
NameInstallSod == <<"I", "n", "s", "t", "a", "l", "l", " ", "s", "o", "d">>
NameOvertime == <<"O", "v", "e", "r", "t", "i", "m", "e">>
NameNone == <<>>

\* a line item of a work order
LineItem(itemName, quantity) == [itemName |-> itemName, quantity |-> quantity]

\* a progress record of a work order; index counts the line items from 0
ProgressRecord(index, status, hoursUsed, quantityCompleted) ==
    [index |-> index, status |-> status, hoursUsed |-> hoursUsed,
     quantityCompleted |-> quantityCompleted]

\* line items of few names and quantities
LineItemLists ==
    {<<>>,
     <<LineItem(NameLabor, 2)>>,
     <<LineItem(NameLabor, 2), LineItem(NameMulch, 1)>>,
     <<LineItem(NameLabor, 1), LineItem(NameLabor, 2)>>}

\* the progress records that give hoursUsed u[i] to line item i, none where
\* u[i] is Absent
RecordsOf(u) ==
    (IF u[1] = Absent THEN <<>>
     ELSE <<ProgressRecord(0, "in-progress", u[1], Absent)>>)
    \o (IF u[2] = Absent THEN <<>>
        ELSE <<ProgressRecord(1, "in-progress", u[2], Absent)>>)

\* progress records with few hours for the first two line items
HoursUsed == {RecordsOf(u) : u \in [1..2 -> {Absent, 1, 3}]}

\* every stored text parses; the widget has cached nothing; the work orders
\* have no line items
InitAux ==
    /\ garbled = {}
    /\ cache = [w \in WoIds |-> <<>>]
    /\ hours = [items |-> <<>>, records |-> <<>>]
    /\ app = [conversationHistory |-> <<>>, requests |-> <<>>]
    /\ chat = [isProcessing |-> FALSE, messages |-> <<>>, calling |-> <<>>,
               isTyping |-> FALSE, messageHistory |-> <<>>, processing |-> <<>>,
               input |-> <<>>]
    /\ repair = [sheet |-> FALSE, rows |-> <<>>, now |-> 0]

\* the endpoint is left out of the specifications of the client alone
InitExt ==
    /\ endpoint = EmptySheets(ChScript)
    /\ me = "A"
    /\ peer = Client(<<>>)
    /\ calls = <<>>
    /\ InitAux

\* what doPost answered for the request it handled in this step; result tells
\* whether the request repeats the one handled just before
Handled(action, batch) ==
    [op |-> action, via |-> "doPost", answer |-> Ok,
     result |-> IF ret.via = "doPost" /\ ret.op = action /\ ret.got = batch
                THEN "again" ELSE "first",
     ids |-> WoNumbers(batch), got |-> batch]

remoteFrame ==
    UNCHANGED <<workOrders, progressData, objVars, clsVars, netVars, calls,
                auxVars>>

\* ---- doPost of Code.gs, action saveWorkOrders
GsDoPostSaveWorkOrders(batches) ==
    \E batch \in batches :
        /\ endpoint.script = GsScript
        /\ endpoint' = GsSaveWorkOrders(endpoint, batch)
        /\ ret' = Handled("saveWorkOrders", batch)
        /\ remoteFrame

\* ---- doPost of Code.gs, action deleteWorkOrder
GsDoPostDeleteWorkOrder ==
    \E w \in WoIds :
        /\ endpoint.script = GsScript
        /\ endpoint' = GsDeleteWorkOrder(endpoint, w)
        /\ ret' = Handled("deleteWorkOrder", <<>>)
        /\ remoteFrame

\* ---- doPost of chat.js, action syncWorkOrders
ChDoPostSyncWorkOrders(lists) ==
    \E list \in lists :
        /\ endpoint.script = ChScript
        /\ endpoint' = ChSyncWorkOrders(endpoint, list)
        /\ ret' = Handled("syncWorkOrders", list)
        /\ remoteFrame

\* ---- doPost of either script, action clearAll
DoPostClearAll ==
    /\ endpoint' = ClearAllData(endpoint)
    /\ ret' = Handled("clearAll", <<>>)
    /\ remoteFrame

\* the value of a property or parameter that was not given
Undefined == "undefined"

\* ---- answers of doGet and doPost to requests that fail
\* the JSON of an answer: its success field ("absent" when it has none) and
\* whether it has an error string
Json(success, error) == [success |-> success, error |-> error]

\* what the endpoint answered in this step to a request that is an
\* application-level error (result "error") or is not ("answered")
Failing(method, action, json, isError, w) ==
    [op |-> action, via |-> method, answer |-> json,
     result |-> IF isError THEN "error" ELSE "answered", ids |-> {w},
     got |-> <<>>]

\* doGet of Code.gs: the default case and the catch block answer {error};
\* getWorkOrder answers {success: false, error, woNumber} when it finds none
GsDoGet ==
    \E action \in {"getOne", "getSummary", "bogus"}, w \in WoIds, throws \in BOOLEAN :
        /\ endpoint.script = GsScript
        /\ LET known == action # "bogus"
               found == w \in WoNumbers(endpoint.wo)
               json == IF throws THEN Json("absent", TRUE)
                       ELSE IF ~known THEN Json("absent", TRUE)
                       ELSE IF action = "getOne" /\ ~found THEN Json("false", TRUE)
                       ELSE Json("true", FALSE)
           IN  ret' = Failing("doGet", action, json,
                              throws \/ ~known \/ (action = "getOne" /\ ~found), w)
        /\ UNCHANGED endpoint
        /\ remoteFrame

\* doPost of Code.gs when the body does not parse, a handler throws or the
\* action is not known: {error, stack} and {error, action}
GsDoPostFails ==
    \E action \in {"saveWorkOrders", "bogus"}, w \in WoIds, throws \in BOOLEAN :
        /\ endpoint.script = GsScript
        /\ throws \/ action = "bogus"
        /\ ret' = Failing("doPost", action, Json("absent", TRUE), TRUE, w)
        /\ UNCHANGED endpoint
        /\ remoteFrame

\* doGet of chat.js: the default case and the catch block answer
\* {success: false, error}
ChDoGet ==
    \E action \in {"getWorkOrders", "bogus"}, w \in WoIds, throws \in BOOLEAN :
        /\ endpoint.script = ChScript
        /\ LET known == action # "bogus"
               json == IF throws \/ ~known THEN Json("false", TRUE)
                       ELSE Json("true", FALSE)
           IN  ret' = Failing("doGet", action, json, throws \/ ~known, w)
        /\ UNCHANGED endpoint
        /\ remoteFrame

\* doPost of chat.js when the body does not parse, a handler throws, the
\* action is not known or updateProgressItem misses a parameter
ChDoPostFails ==
    \E action \in {"updateProgress", "bogus"}, w \in WoIds \cup {Undefined},
       throws \in BOOLEAN :
        /\ endpoint.script = ChScript
        /\ throws \/ action = "bogus" \/ w = Undefined
        /\ ret' = Failing("doPost", action, Json("false", TRUE), TRUE, w)
        /\ UNCHANGED endpoint
        /\ remoteFrame

\* the endpoint alone, either script deployed; the clients are idle
InitRemote ==
    /\ endpoint \in {EmptySheets(GsScript), EmptySheets(ChScript)}
    /\ me = "A"
    /\ peer = Client(<<>>)
    /\ calls = <<>>
    /\ InitAux
    /\ workOrders = <<>>
    /\ progressData = EmptyProgress
    /\ enabled = TRUE
    /\ sheetUrl = "URL"
    /\ interval = "manual"
    /\ lastSync = 0
    /\ syncInProgress = FALSE
    /\ syncTimer = 0
    /\ armed = ArmedBy(syncTimer)
    /\ timeouts = <<>>
    /\ online = TRUE
    /\ syncs = <<>>
    /\ pulls = 0
    /\ pushes = 0
    /\ progReqs = <<>>
    /\ useGoogleSheets = TRUE
    /\ clsLastSync = 0
    /\ pendingWorkOrderSync = {}
    /\ pendingProgressSync = {}
    /\ clsOps = <<>>
    /\ since = [save |-> DebounceDelay, mutation |-> DebounceDelay]
    /\ ret = Call("init", "load", "", {})

NextRemote ==
    \/ GsDoPostSaveWorkOrders(WoLists)
    \/ GsDoPostDeleteWorkOrder
    \/ ChDoPostSyncWorkOrders(WoLists)
    \/ DoPostClearAll
    \/ GsDoGet
    \/ GsDoPostFails
    \/ ChDoGet
    \/ ChDoPostFails

SpecRemote == InitRemote /\ [][NextRemote]_vars


\* ========================================================================
\* Object WorkOrderSync, continued
\* ========================================================================

\* parseInt(config.interval, 10); -1 stands for NaN
ParseInt(iv) == IF iv = "15" THEN 15 ELSE IF iv = "60" THEN 60 ELSE -1

\* startAutoSync: the timer armed for the configuration (en, iv), 0 for none
startAutoSync(en, iv) ==
    IF ~en \/ iv = "manual" THEN 0
    ELSE IF ParseInt(iv) <= 0 THEN 0
    ELSE ParseInt(iv)

\* mutant: startAutoSync and stopAutoSync leave the old timer armed
ClearIntervalNoop(ts) == ts

\* clearInterval(this.syncTimer): the handle names the newest timer
ClearInterval(ts) == IF ts = <<>> THEN ts ELSE SubSeq(ts, 1, Len(ts) - 1)

\* stopAutoSync, and "Clear existing timer" of startAutoSync: the timers
\* left when the handle names timer t
stopAutoSync(ts, t) == IF t # 0 THEN ClearInterval(ts) ELSE ts

\* the timers the runtime holds after startAutoSync
autoSyncTimers(ts, t, en, iv) ==
    stopAutoSync(ts, t) \o ArmedBy(startAutoSync(en, iv))

\* mutant: debouncedSync leaves the pending timer armed
ClearTimeoutNoop(ts) == ts

\* clearTimeout(this._syncDebounceTimer): the handle names the newest timer
ClearTimeout(ts) == IF ts = <<>> THEN ts ELSE SubSeq(ts, 1, Len(ts) - 1)

\* debouncedSync: the pending timers after the call
debouncedSync(ts) == Append(ClearTimeout(ts), DebounceDelay)

\* a sync() invocation suspended at the await of request pc: localWorkOrders,
\* localProgress and merged, as read and computed so far
SyncOp(pc, wo, pd, mwo, mpd) ==
    [pc |-> pc, wo |-> wo, pd |-> pd, mwo |-> mwo, mpd |-> mpd]

\* mutant: sync() without its busy guard
SyncBusyNever == FALSE

\* the busy guard at the head of sync()
SyncBusy == syncInProgress

\* mutant: the catch block forgets to reset the flag
CatchFlagStuck == TRUE

\* the value the catch block of sync() leaves in config.syncInProgress
CatchFlag == FALSE

\* sync() from its call to its first await, or to its early return; en and
\* url are the configuration the caller left in config
syncCall(via, en, url) ==
    IF SyncBusy
    THEN /\ ret' = Call("sync", via, "sync_in_progress", {})
         /\ UNCHANGED <<syncInProgress, syncs>>
    ELSE IF ~en \/ url = ""
    THEN /\ ret' = Call("sync", via, "not_configured", {})
         /\ UNCHANGED <<syncInProgress, syncs>>
    ELSE IF ~online
    THEN /\ ret' = Call("sync", via, "offline", {})
         /\ UNCHANGED <<syncInProgress, syncs>>
    ELSE IF garbled \cap {"workOrders", "progressData"} # {}
    THEN \* JSON.parse throws inside the try: the catch block
         /\ syncInProgress' = CatchFlag
         /\ ret' = Call("sync", via, "failed", {})
         /\ UNCHANGED syncs
    ELSE /\ syncInProgress' = TRUE
         /\ syncs' = Append(syncs, SyncOp("getAll", workOrders, progressData,
                                           workOrders, progressData))
         /\ ret' = Call("sync", via, "pending", {})

\* a direct call of WorkOrderSync.sync()
CallSync ==
    /\ syncCall("manual", enabled, sheetUrl)
    /\ UNCHANGED <<workOrders, progressData, enabled, sheetUrl, interval,
                   lastSync, syncTimer, armed, timeouts, online, pulls, pushes,
                   progReqs, since>>
    /\ objFrame

\* the workOrderSyncSettingsChanged listener, for the event detail
\* {enabled: en, sheetUrl: url, interval: iv}
settingsChanged(en, url, iv) ==
    /\ enabled' = en
    /\ sheetUrl' = url
    /\ interval' = iv
    /\ syncTimer' = startAutoSync(en, iv)
    /\ armed' = autoSyncTimers(armed, syncTimer, en, iv)
    /\ IF en /\ url # ""
       THEN syncCall("settings", en, url)
       ELSE /\ ret' = Call("saveSettings", "settings", "", {})
            /\ UNCHANGED <<syncInProgress, syncs>>

\* saveSettings of the dashboard and the workOrderSyncSettingsChanged
\* listener: the event is dispatched only when sync is enabled
SaveSettings ==
    \E en \in BOOLEAN, url \in Urls, iv \in Intervals :
        /\ IF en
           THEN settingsChanged(en, url, iv)
           ELSE /\ ret' = Call("saveSettings", "settings", "no_event", {})
                /\ UNCHANGED <<enabled, sheetUrl, interval, syncTimer, armed,
                               syncInProgress, syncs>>
        /\ UNCHANGED <<workOrders, progressData, lastSync, timeouts, online,
                       pulls, pushes, progReqs, since>>
        /\ objFrame

\* a workOrderSyncSettingsChanged event dispatched with any detail
SettingsChanged ==
    \E en \in BOOLEAN, url \in Urls, iv \in Intervals :
        /\ settingsChanged(en, url, iv)
        /\ UNCHANGED <<workOrders, progressData, lastSync, timeouts, online,
                       pulls, pushes, progReqs, since>>
        /\ objFrame

\* a direct call of WorkOrderSync.startAutoSync()
StartAutoSync ==
    /\ syncTimer' = startAutoSync(enabled, interval)
    /\ armed' = autoSyncTimers(armed, syncTimer, enabled, interval)
    /\ ret' = Call("startAutoSync", "manual", "none", {})
    /\ UNCHANGED <<workOrders, progressData, enabled, sheetUrl, interval,
                   lastSync, syncInProgress, timeouts, online, syncs, pulls,
                   pushes, progReqs, since>>
    /\ objFrame

\* a direct call of WorkOrderSync.stopAutoSync()
StopAutoSync ==
    /\ syncTimer' = 0
    /\ armed' = stopAutoSync(armed, syncTimer)
    /\ ret' = Call("stopAutoSync", "manual", "none", {})
    /\ UNCHANGED <<workOrders, progressData, enabled, sheetUrl, interval,
                   lastSync, syncInProgress, timeouts, online, syncs, pulls,
                   pushes, progReqs, since>>
    /\ objFrame

\* a tick of the setInterval armed by startAutoSync
IntervalFire ==
    /\ armed # <<>>
    /\ syncCall("interval", enabled, sheetUrl)
    /\ UNCHANGED <<workOrders, progressData, enabled, sheetUrl, interval,
                   lastSync, syncTimer, armed, timeouts, online, pulls, pushes,
                   progReqs, since>>
    /\ objFrame

\* the callback of a due debounce timer
DebounceFire ==
    \E i \in 1..Len(timeouts) :
        /\ timeouts[i] = 0
        /\ timeouts' = RemoveAt(timeouts, i)
        /\ syncCall("debounce", enabled, sheetUrl)
        /\ UNCHANGED <<workOrders, progressData, enabled, sheetUrl, interval,
                       lastSync, syncTimer, armed, online, pulls, pushes, progReqs,
                       since>>
        /\ objFrame

\* one second passes
Tick ==
    /\ \/ since.mutation < DebounceDelay
       \/ \E i \in 1..Len(timeouts) : timeouts[i] > 0
    /\ timeouts' = [i \in 1..Len(timeouts) |->
                        IF timeouts[i] > 0 THEN timeouts[i] - 1 ELSE 0]
    /\ since' = [k \in DOMAIN since |->
                     IF since[k] < DebounceDelay THEN since[k] + 1 ELSE since[k]]
    /\ ret' = Call("tick", "clock", "", {})
    /\ UNCHANGED <<workOrders, progressData, enabled, sheetUrl, interval,
                   lastSync, syncInProgress, syncTimer, armed, online, syncs, pulls,
                   pushes, progReqs>>
    /\ objFrame

\* the browser goes online or offline
SetOnline ==
    /\ online' = ~online
    /\ ret' = Call("online", "browser", "", {})
    /\ UNCHANGED <<workOrders, progressData, enabled, sheetUrl, interval,
                   lastSync, syncInProgress, syncTimer, armed, timeouts, syncs, pulls,
                   pushes, progReqs, since>>
    /\ objFrame


\* ---- sync(): the continuation after getAll

\* mutant: sync() goes on whatever getAll answered
GetAllOkAlways(a) == TRUE

\* apiRequest('getAll') returned and remoteData.success is true; otherwise
\* sync() is in its catch block
GetAllOk(a) == a.kind = Ok

\* mutant: the remote work orders are never adopted
AdoptNever(local, remote) == FALSE

\* "If local is empty but remote has data, use remote"
AdoptWorkOrders(local, remote) == Len(local) = 0 /\ Len(remote) > 0

\* "Merge progress data": an Ok answer always carries a progressData object
AdoptProgress(local) == Keys(local) = {}

\* the catch block of sync(), run by invocation i
syncCatch(i, answer, got) ==
    /\ syncInProgress' = CatchFlag
    /\ syncs' = RemoveAt(syncs, i)
    /\ ret' = Resp("sync", answer, "failed", {}, got)
    /\ UNCHANGED lastSync

\* the successful end of sync(), run by invocation i
syncDone(i, answer, got) ==
    /\ lastSync' = NewStamp(lastSync)
    /\ syncInProgress' = FALSE
    /\ syncs' = RemoveAt(syncs, i)
    /\ ret' = Resp("sync", answer, "success", {}, got)

\* the getAll request of invocation i is answered by a
SyncGetAllResp(answers) ==
    \E i \in 1..Len(syncs), a \in answers :
        /\ syncs[i].pc = "getAll"
        /\ IF ~GetAllOk(a)
           THEN /\ syncCatch(i, a.kind, a.workOrders)
                /\ UNCHANGED <<workOrders, progressData>>
           ELSE LET local == syncs[i]
                    adoptWo == AdoptWorkOrders(local.wo, a.workOrders)
                    adoptPd == AdoptProgress(local.pd)
                    mergedWo == IF adoptWo THEN a.workOrders ELSE local.wo
                    mergedPd == IF adoptPd THEN a.progressData ELSE local.pd
                IN  /\ workOrders' = IF adoptWo THEN mergedWo ELSE workOrders
                    /\ progressData' = IF adoptPd THEN mergedPd ELSE progressData
                    /\ IF Len(mergedWo) > 0
                       THEN IF sheetUrl = ""
                            THEN syncCatch(i, a.kind, a.workOrders)  \* apiRequest throws
                            ELSE /\ syncs' = [syncs EXCEPT ![i] =
                                        SyncOp("fullSync", local.wo, local.pd,
                                               mergedWo, mergedPd)]
                                 /\ ret' = Resp("sync", a.kind, "pending", {}, a.workOrders)
                                 /\ UNCHANGED <<syncInProgress, lastSync>>
                       ELSE syncDone(i, a.kind, a.workOrders)
        /\ UNCHANGED <<enabled, sheetUrl, interval, syncTimer, armed, timeouts, online,
                       pulls, pushes, progReqs, since>>
        /\ objFrame

\* the fullSync post of invocation i is answered: apiRequest throws on a
\* transport failure and returns the JSON otherwise; sync() does not read it
syncAfterFullSync(i, a) ==
    /\ syncs[i].pc = "fullSync"
    /\ IF a = NetErr THEN syncCatch(i, a, <<>>) ELSE syncDone(i, a, <<>>)
    /\ UNCHANGED <<workOrders, progressData, enabled, sheetUrl, interval,
                   syncTimer, armed, timeouts, online, pulls, pushes, progReqs,
                   since>>
    /\ UNCHANGED clsVars

SyncFullSyncResp ==
    \E i \in 1..Len(syncs), a \in PostAnswers :
        /\ syncAfterFullSync(i, a)
        /\ UNCHANGED extVars

\* ---- pull()
Pull ==
    /\ IF ~enabled \/ sheetUrl = ""
       THEN ret' = Call("pull", "manual", "not_configured", {}) /\ UNCHANGED pulls
       ELSE IF ~online
       THEN ret' = Call("pull", "manual", "offline", {}) /\ UNCHANGED pulls
       ELSE /\ pulls < MaxInflight
            /\ pulls' = pulls + 1
            /\ ret' = Call("pull", "manual", "pending", {})
    /\ UNCHANGED <<workOrders, progressData, enabled, sheetUrl, interval,
                   lastSync, syncInProgress, syncTimer, armed, timeouts, online, syncs,
                   pushes, progReqs, since>>
    /\ objFrame

PullResp(answers) ==
    \E a \in answers :
        /\ pulls > 0
        /\ pulls' = pulls - 1
        /\ IF a.kind = Ok
           THEN /\ workOrders' = a.workOrders
                /\ progressData' = a.progressData
                /\ lastSync' = NewStamp(lastSync)
                /\ ret' = Resp("pull", a.kind, "success", {}, a.workOrders)
           ELSE /\ ret' = Resp("pull", a.kind, "failed", {}, <<>>)
                /\ UNCHANGED <<workOrders, progressData, lastSync>>
        /\ UNCHANGED <<enabled, sheetUrl, interval, syncInProgress, syncTimer, armed,
                       timeouts, online, syncs, pushes, progReqs, since>>
        /\ objFrame

\* ---- pushWorkOrders(workOrders)
PushWorkOrders ==
    /\ IF ~enabled \/ sheetUrl = ""
       THEN ret' = Call("pushWorkOrders", "manual", "not_configured", {})
            /\ UNCHANGED pushes
       ELSE IF ~online
       THEN ret' = Call("pushWorkOrders", "manual", "offline", {})
            /\ UNCHANGED pushes
       ELSE /\ pushes < MaxInflight
            /\ pushes' = pushes + 1
            /\ ret' = Call("pushWorkOrders", "manual", "pending", {})
    /\ UNCHANGED <<workOrders, progressData, enabled, sheetUrl, interval,
                   lastSync, syncInProgress, syncTimer, armed, timeouts, online, syncs,
                   pulls, progReqs, since>>
    /\ objFrame

PushResp ==
    \E a \in PostAnswers :
        /\ pushes > 0
        /\ pushes' = pushes - 1
        /\ IF a = Ok
           THEN /\ lastSync' = NewStamp(lastSync)
                /\ ret' = Resp("pushWorkOrders", a, "success", {}, <<>>)
           ELSE /\ ret' = Resp("pushWorkOrders", a, "failed", {}, <<>>)
                /\ UNCHANGED lastSync
        /\ UNCHANGED <<workOrders, progressData, enabled, sheetUrl, interval,
                       syncInProgress, syncTimer, armed, timeouts, online, syncs,
                       pulls, progReqs, since>>
        /\ objFrame

\* ---- saveWorkOrders(workOrders) and the workOrdersUpdated listener
SaveWorkOrders(lists) ==
    \E wos \in lists :
        /\ workOrders' = wos
        /\ since' = [save |-> 0, mutation |-> 0]
        /\ timeouts' = IF enabled /\ sheetUrl # ""
                       THEN debouncedSync(timeouts)
                       ELSE timeouts
        /\ ret' = Call("saveWorkOrders", "manual", "", WoNumbers(wos))
        /\ UNCHANGED <<progressData, enabled, sheetUrl, interval, lastSync,
                       syncInProgress, syncTimer, armed, online, syncs, pulls, pushes,
                       progReqs>>
        /\ objFrame

\* ---- saveProgressData(progressData) and the progressUpdated listener: the
\* event detail is {progressData}, so the listener calls
\* syncProgress(undefined, undefined)
SaveProgressData(maps) ==
    \E pd \in maps :
        /\ progressData' = pd
        /\ IF enabled /\ sheetUrl # "" /\ online
           THEN /\ Len(progReqs) < MaxInflight
                /\ progReqs' = Append(progReqs, [woNumber |-> Undefined,
                                                 progress |-> Undefined])
                /\ ret' = Call("syncProgress", "progressUpdated", "pending", {})
           ELSE /\ ret' = Call("saveProgressData", "manual", "", {})
                /\ UNCHANGED progReqs
        /\ since' = [since EXCEPT !.mutation = 0]
        /\ UNCHANGED <<workOrders, enabled, sheetUrl, interval, lastSync,
                       syncInProgress, syncTimer, armed, timeouts, online, syncs,
                       pulls, pushes>>
        /\ objFrame

\* the syncProgress post is answered; the result is returned to the listener
SyncProgressResp ==
    \E i \in 1..Len(progReqs), a \in PostAnswers :
        /\ progReqs' = RemoveAt(progReqs, i)
        /\ ret' = Resp("syncProgress", a, IF a = Ok THEN "success" ELSE "failed", {}, <<>>)
        /\ UNCHANGED <<workOrders, progressData, enabled, sheetUrl, interval,
                       lastSync, syncInProgress, syncTimer, armed, timeouts, online,
                       syncs, pulls, pushes, since>>
        /\ objFrame

\* ---- the state after the script is loaded and init() has run: the
\* ---- testConnection, initializeSheets, getSummary, updateProgressItem:
\* one request each

\* what these steps leave alone
callFrame ==
    /\ UNCHANGED <<workOrders, progressData, objVars, clsVars, endpoint, netVars,
                   auxVars>>

\* testConnection(): apiRequest throws without a URL, inside the try
TestConnection ==
    /\ IF sheetUrl = ""
       THEN /\ ret' = Call("testConnection", "manual", "false", {})
            /\ UNCHANGED calls
       ELSE /\ Len(calls) < MaxInflight
            /\ calls' = Append(calls, "testConnection")
            /\ ret' = Call("testConnection", "manual", "pending", {})
    /\ callFrame

\* initializeSheets(): the catch logs the error and throws it again
InitializeSheets ==
    /\ IF sheetUrl = ""
       THEN /\ ret' = Call("initializeSheets", "manual", "thrown", {})
            /\ UNCHANGED calls
       ELSE /\ Len(calls) < MaxInflight
            /\ calls' = Append(calls, "initializeSheets")
            /\ ret' = Call("initializeSheets", "manual", "pending", {})
    /\ callFrame

\* getSummary(woNumber)
GetSummary ==
    \E w \in WoIds :
        /\ IF ~enabled \/ sheetUrl = ""
           THEN /\ ret' = Call("getSummary", "manual", "null", {w})
                /\ UNCHANGED calls
           ELSE /\ Len(calls) < MaxInflight
                /\ calls' = Append(calls, "getSummary")
                /\ ret' = Call("getSummary", "manual", "pending", {w})
        /\ callFrame

\* updateProgressItem(woNumber, itemIndex, progressData)
UpdateProgressItem ==
    \E w \in WoIds :
        /\ IF ~enabled \/ sheetUrl = ""
           THEN /\ ret' = Call("updateProgressItem", "manual", "not_configured", {w})
                /\ UNCHANGED calls
           ELSE IF ~online
           THEN /\ ret' = Call("updateProgressItem", "manual", "offline", {w})
                /\ UNCHANGED calls
           ELSE /\ Len(calls) < MaxInflight
                /\ calls' = Append(calls, "updateProgressItem")
                /\ ret' = Call("updateProgressItem", "manual", "pending", {w})
        /\ callFrame

\* the value an operation returns when its one request is answered by a
Returned(op, a) ==
    IF op = "testConnection" THEN (IF a = Ok THEN "true" ELSE "false")
    ELSE IF op = "getSummary" THEN (IF a = Ok THEN "summary" ELSE "null")
    ELSE IF op = "initializeSheets"
         THEN (IF a = NetErr THEN "thrown" ELSE IF a = Ok THEN "success" ELSE "failed")
    ELSE (IF a = Ok THEN "success" ELSE "failed")

\* the request of one of these operations is answered
CallResp ==
    \E i \in 1..Len(calls), a \in PostAnswers :
        /\ calls' = RemoveAt(calls, i)
        /\ ret' = Resp(calls[i], a, Returned(calls[i], a), {}, <<>>)
        /\ callFrame

\* settings, the cache and the last-sync stamp are whatever an earlier
\* session left in localStorage; the class is not in use
InitObj(lists, maps) ==
    /\ workOrders \in lists
    /\ progressData \in maps
    /\ lastSync \in {0, 1}
    /\ syncInProgress = FALSE
    /\ syncTimer = startAutoSync(enabled, interval)
    /\ armed = ArmedBy(syncTimer)
    /\ timeouts = <<>>
    /\ online = TRUE
    /\ syncs = <<>>
    /\ pulls = 0
    /\ pushes = 0
    /\ progReqs = <<>>
    /\ useGoogleSheets = FALSE
    /\ clsLastSync = 0
    /\ pendingWorkOrderSync = {}
    /\ pendingProgressSync = {}
    /\ clsOps = <<>>
    /\ since = [save |-> DebounceDelay, mutation |-> DebounceDelay]
    /\ InitExt
    /\ ret = Call("init", "load", "", {})

\* Spec: sync() and what calls it -- direct calls, the settings event, the
\* interval timer, the debounce timer -- over few cache contents
Init ==
    /\ enabled \in BOOLEAN
    /\ sheetUrl \in Urls
    /\ interval \in {"manual", "60"}
    /\ InitObj(FewLists, FewProgress)

Next ==
    \/ CallSync
    \/ SaveSettings
    \/ IntervalFire
    \/ DebounceFire
    \/ Tick
    \/ SetOnline
    \/ SyncGetAllResp(GetAllAnswers(FewLists, FewProgress))
    \/ SyncFullSyncResp
    \/ SaveWorkOrders(FewLists)

Spec == Init /\ [][Next]_vars

\* LiveSpec: Spec where every outstanding request of sync() is answered
\* at last (by success or by failure)
LiveSpec ==
    /\ Spec
    /\ WF_vars(SyncGetAllResp(GetAllAnswers(FewLists, FewProgress)))
    /\ WF_vars(SyncFullSyncResp)

\* SpecTimed: the local mutations, the clock and the debounce timer
NextTimed ==
    \/ SaveWorkOrders(FewLists)
    \/ SaveProgressData(FewProgress)
    \/ SyncProgressResp
    \/ Tick
    \/ DebounceFire
    \/ SyncGetAllResp(GetAllAnswers(FewLists, FewProgress))
    \/ SyncFullSyncResp
    \/ PushWorkOrders
    \/ PushResp

SpecTimed == Init /\ [][NextTimed]_vars

\* SpecOps: the operations of one request each, with pull and push
NextOps ==
    \/ TestConnection
    \/ InitializeSheets
    \/ GetSummary
    \/ UpdateProgressItem
    \/ CallResp
    \/ SetOnline
    \/ SaveProgressData(FewProgress)
    \/ SyncProgressResp
    \/ PushWorkOrders
    \/ PushResp
    \/ Pull
    \/ PullResp(GetAllAnswers(FewLists, FewProgress))

SpecOps == Init /\ [][NextOps]_vars

\* SpecAuto: the interval timer under settings events and direct calls of
\* startAutoSync and stopAutoSync
NextAuto ==
    \/ SettingsChanged
    \/ StartAutoSync
    \/ StopAutoSync
    \/ IntervalFire
    \/ SyncGetAllResp(GetAllAnswers(FewLists, FewProgress))
    \/ SyncFullSyncResp

SpecAuto == Init /\ [][NextAuto]_vars

\* SpecData: sync() and pull() of an enabled, configured
\* module over all the work-order arrays of the model
InitData ==
    /\ enabled = TRUE
    /\ sheetUrl = "URL"
    /\ interval = "manual"
    /\ InitObj(WoLists, FewProgress)

NextData ==
    \/ CallSync
    \/ SyncGetAllResp(GetAllAnswers(WoLists, FewProgress))
    \/ SyncFullSyncResp
    \/ Pull
    \/ PullResp(GetAllAnswers(WoLists, FewProgress))
    \/ SaveWorkOrders(WoLists)

SpecData == InitData /\ [][NextData]_vars


\* ========================================================================
\* Class WorkOrderSync (src/unnamed/part_003)
\* ========================================================================

\* existingMap.set(wo.woNumber, wo) on a Map kept as the array of its values
\* in insertion order
MapSet(list, wo) ==
    IF \E i \in 1..Len(list) : list[i].woNumber = wo.woNumber
    THEN LET i == CHOOSE j \in 1..Len(list) : list[j].woNumber = wo.woNumber
         IN  [list EXCEPT ![i] = wo]
    ELSE Append(list, wo)

\* the values of the Map after every element of list is set, in order
RECURSIVE MapSetAll(_, _)
MapSetAll(acc, list) ==
    IF list = <<>> THEN acc
    ELSE MapSetAll(MapSet(acc, Head(list)), Tail(list))

\* saveWorkOrders: "Get existing and merge"
MergeWorkOrders(existing, batch) == MapSetAll(MapSetAll(<<>>, existing), batch)

\* markPendingSync / markPendingProgressSync
markPendingSync(pending, woNumbers) == pending \cup woNumbers
markPendingProgressSync(pending, woNumber) == pending \cup {woNumber}

\* mutant: updateProgress without its local write
updateProgressLocalSkipped(pd, woNumber, progress) == pd

\* updateProgress: "Save locally"
updateProgressLocal(pd, woNumber, progress) == [pd EXCEPT ![woNumber] = progress]

\* a class operation suspended at an await: its name, the request it waits
\* for, the woNumbers it was called with, the progress it was called with and
\* (syncToCloud) the progress entries still to upload
ClsOp(op, pc, ids, prog, left) ==
    [op |-> op, pc |-> pc, ids |-> ids, prog |-> prog, left |-> left]

clsFrame == UNCHANGED <<objVars, extVars>>

\* ---- saveWorkOrders(workOrders)
ClsSaveWorkOrders(lists) ==
    \E batch \in lists :
        /\ workOrders' = MergeWorkOrders(workOrders, batch)
        /\ IF useGoogleSheets
           THEN /\ Len(clsOps) < MaxInflight
                /\ clsOps' = Append(clsOps, ClsOp("saveWorkOrders", "saveWorkOrders",
                                                  WoNumbers(batch), NoProg, {}))
                /\ ret' = Call("saveWorkOrders", "call", "pending", WoNumbers(batch))
           ELSE /\ ret' = Call("saveWorkOrders", "call", "success", WoNumbers(batch))
                /\ UNCHANGED clsOps
        /\ UNCHANGED <<progressData, useGoogleSheets, clsLastSync,
                       pendingWorkOrderSync, pendingProgressSync>>
        /\ clsFrame

\* ---- updateProgress(woNumber, progress)
ClsUpdateProgress ==
    \E w \in WoIds, p \in Progs :
        /\ progressData' = updateProgressLocal(progressData, w, p)
        /\ IF useGoogleSheets
           THEN /\ Len(clsOps) < MaxInflight
                /\ clsOps' = Append(clsOps, ClsOp("updateProgress", "updateProgress",
                                                  {w}, p, {}))
                /\ ret' = Call("updateProgress", "call", "pending", {w})
           ELSE /\ ret' = Call("updateProgress", "call", "success", {w})
                /\ UNCHANGED clsOps
        /\ UNCHANGED <<workOrders, useGoogleSheets, clsLastSync,
                       pendingWorkOrderSync, pendingProgressSync>>
        /\ clsFrame

\* ---- deleteWorkOrder(woNumber)
ClsDeleteWorkOrder ==
    \E w \in WoIds :
        /\ workOrders' = SelectSeq(workOrders, LAMBDA wo : wo.woNumber # w)
        /\ progressData' = [progressData EXCEPT ![w] = NoProg]
        /\ IF useGoogleSheets
           THEN /\ Len(clsOps) < MaxInflight
                /\ clsOps' = Append(clsOps, ClsOp("deleteWorkOrder", "deleteWorkOrder",
                                                  {w}, NoProg, {}))
                /\ ret' = Call("deleteWorkOrder", "call", "pending", {w})
           ELSE /\ ret' = Call("deleteWorkOrder", "call", "success", {w})
                /\ UNCHANGED clsOps
        /\ UNCHANGED <<useGoogleSheets, clsLastSync, pendingWorkOrderSync,
                       pendingProgressSync>>
        /\ clsFrame

\* the post of saveWorkOrders, updateProgress or deleteWorkOrder is answered:
\* postToCloud throws on a transport failure and returns the JSON otherwise;
\* the three operations return {success: true} in every case
ClsPostResp ==
    \E i \in 1..Len(clsOps), a \in PostAnswers :
        LET o == clsOps[i] IN
        /\ o.op \in {"saveWorkOrders", "updateProgress", "deleteWorkOrder"}
        /\ clsOps' = RemoveAt(clsOps, i)
        /\ pendingWorkOrderSync' =
              IF a = NetErr /\ o.op = "saveWorkOrders"
              THEN markPendingSync(pendingWorkOrderSync, o.ids)
              ELSE pendingWorkOrderSync
        /\ pendingProgressSync' =
              IF a = NetErr /\ o.op = "updateProgress"
              THEN markPendingProgressSync(pendingProgressSync, CHOOSE w \in o.ids : TRUE)
              ELSE pendingProgressSync
        /\ ret' = Resp(o.op, a, "success", o.ids, <<>>)
        /\ UNCHANGED <<workOrders, progressData, useGoogleSheets, clsLastSync>>
        /\ clsFrame

\* ---- syncFromCloud(), also the callback of the class's auto-sync timer
ClsSyncFromCloud ==
    /\ IF ~useGoogleSheets
       THEN /\ ret' = Call("syncFromCloud", "call", "not_configured", {})
            /\ UNCHANGED clsOps
       ELSE /\ Len(clsOps) < MaxInflight
            /\ clsOps' = Append(clsOps, ClsOp("syncFromCloud", "getAll", {}, NoProg, {}))
            /\ ret' = Call("syncFromCloud", "call", "pending", {})
    /\ UNCHANGED <<workOrders, progressData, useGoogleSheets, clsLastSync,
                   pendingWorkOrderSync, pendingProgressSync>>
    /\ clsFrame

\* "Extract and save progress": the progress the answered work orders carry
\* overrides the local entries of the same woNumber
MergeCloudProgress(local, a) ==
    [w \in WoIds |-> IF w \in WoNumbers(a.workOrders) /\ a.progressData[w] # NoProg
                     THEN a.progressData[w]
                     ELSE local[w]]

ClsSyncFromCloudResp(answers) ==
    \E i \in 1..Len(clsOps), a \in answers :
        /\ clsOps[i].op = "syncFromCloud"
        /\ clsOps' = RemoveAt(clsOps, i)
        /\ IF a.kind = Ok
           THEN /\ workOrders' = a.workOrders
                /\ progressData' = MergeCloudProgress(progressData, a)
                /\ clsLastSync' = NewStamp(clsLastSync)
                /\ ret' = Resp("syncFromCloud", a.kind, "success", {}, a.workOrders)
           ELSE \* success false: the function ends without a return value
                /\ ret' = Resp("syncFromCloud", a.kind,
                                IF a.kind = NetErr THEN "failed" ELSE "none", {}, <<>>)
                /\ UNCHANGED <<workOrders, progressData, clsLastSync>>
        /\ UNCHANGED <<useGoogleSheets, pendingWorkOrderSync, pendingProgressSync>>
        /\ clsFrame

\* ---- syncToCloud(): the work orders, then one updateProgress per entry of
\* the progress object read at the call
ClsSyncToCloud ==
    /\ IF ~useGoogleSheets
       THEN /\ ret' = Call("syncToCloud", "call", "not_configured", {})
            /\ UNCHANGED clsOps
       ELSE /\ Len(clsOps) < MaxInflight
            /\ clsOps' = Append(clsOps, ClsOp("syncToCloud", "saveWorkOrders",
                                              WoNumbers(workOrders), NoProg,
                                              Keys(progressData)))
            /\ ret' = Call("syncToCloud", "call", "pending", WoNumbers(workOrders))
    /\ UNCHANGED <<workOrders, progressData, useGoogleSheets, clsLastSync,
                   pendingWorkOrderSync, pendingProgressSync>>
    /\ clsFrame

ClsSyncToCloudResp ==
    \E i \in 1..Len(clsOps), a \in PostAnswers :
        LET o == clsOps[i] IN
        /\ o.op = "syncToCloud"
        /\ IF a = NetErr
           THEN /\ clsOps' = RemoveAt(clsOps, i)
                /\ ret' = Resp("syncToCloud", a, "failed", o.ids, <<>>)
                /\ UNCHANGED clsLastSync
           ELSE IF o.left # {}
           THEN \E w \in o.left :
                /\ clsOps' = [clsOps EXCEPT ![i] =
                                 ClsOp("syncToCloud", "updateProgress", o.ids, NoProg,
                                       o.left \ {w})]
                /\ ret' = Resp("syncToCloud", a, "pending", o.ids, <<>>)
                /\ UNCHANGED clsLastSync
           ELSE /\ clsOps' = RemoveAt(clsOps, i)
                /\ clsLastSync' = NewStamp(clsLastSync)
                /\ ret' = Resp("syncToCloud", a, "success", o.ids, <<>>)
        /\ UNCHANGED <<workOrders, progressData, useGoogleSheets,
                       pendingWorkOrderSync, pendingProgressSync>>
        /\ clsFrame

\* SpecCls: the class after construction, with and without a cloud URL; the
\* object variant is not loaded
InitCls ==
    /\ workOrders \in FewLists
    /\ progressData = EmptyProgress
    /\ useGoogleSheets \in BOOLEAN
    /\ clsLastSync = 0
    /\ pendingWorkOrderSync = {}
    /\ pendingProgressSync = {}
    /\ clsOps = <<>>
    /\ enabled = FALSE
    /\ sheetUrl = ""
    /\ interval = "manual"
    /\ lastSync = 0
    /\ syncInProgress = FALSE
    /\ syncTimer = 0
    /\ armed = ArmedBy(syncTimer)
    /\ timeouts = <<>>
    /\ online = TRUE
    /\ syncs = <<>>
    /\ pulls = 0
    /\ pushes = 0
    /\ progReqs = <<>>
    /\ since = [save |-> DebounceDelay, mutation |-> DebounceDelay]
    /\ InitExt
    /\ ret = Call("init", "load", "", {})

NextCls ==
    \/ ClsSaveWorkOrders(FewLists)
    \/ ClsUpdateProgress
    \/ ClsDeleteWorkOrder
    \/ ClsPostResp
    \/ ClsSyncFromCloud
    \/ ClsSyncFromCloudResp(GetAllAnswers(FewLists, FewProgress))
    \/ ClsSyncToCloud
    \/ ClsSyncToCloudResp

SpecCls == InitCls /\ [][NextCls]_vars


\* the batches of FewLists, and one whose work order has an empty woNumber
BlankLists == FewLists \cup {<<[woNumber |-> "", rev |-> 1]>>}

\* SpecBlank: the writes of the class when a caller leaves woNumber empty
NextBlank ==
    \/ ClsSaveWorkOrders(BlankLists)
    \/ ClsUpdateProgress
    \/ ClsDeleteWorkOrder
    \/ ClsPostResp

SpecBlank == InitCls /\ [][NextBlank]_vars


\* ========================================================================
\* Both variants on the one cache (keys 'workOrders' and 'progressData')
\* ========================================================================

\* batches a caller may pass to saveWorkOrders: those of FewLists, and one
\* that names W1 twice
DupLists ==
    FewLists \cup {<<[woNumber |-> "W1", rev |-> 1], [woNumber |-> "W1", rev |-> 2]>>}

\* both variants configured; the cache holds no work order twice
InitDup ==
    /\ enabled = TRUE
    /\ sheetUrl = "URL"
    /\ interval = "manual"
    /\ workOrders \in FewLists
    /\ progressData = EmptyProgress
    /\ lastSync = 0
    /\ syncInProgress = FALSE
    /\ syncTimer = startAutoSync(enabled, interval)
    /\ armed = ArmedBy(syncTimer)
    /\ timeouts = <<>>
    /\ online = TRUE
    /\ syncs = <<>>
    /\ pulls = 0
    /\ pushes = 0
    /\ progReqs = <<>>
    /\ useGoogleSheets = TRUE
    /\ clsLastSync = 0
    /\ pendingWorkOrderSync = {}
    /\ pendingProgressSync = {}
    /\ clsOps = <<>>
    /\ since = [save |-> DebounceDelay, mutation |-> DebounceDelay]
    /\ InitExt
    /\ ret = Call("init", "load", "", {})

\* the operations that write the 'workOrders' key whatever it holds (sync()
\* writes it only when it is empty: SpecData); the remote answers arrays
\* without repeated woNumbers
NextDup ==
    \/ SaveWorkOrders(DupLists)
    \/ ClsSaveWorkOrders(DupLists)
    \/ ClsDeleteWorkOrder
    \/ ClsPostResp
    \/ Pull
    \/ PullResp(GetAllAnswers(FewLists, FewProgress))
    \/ ClsSyncFromCloud
    \/ ClsSyncFromCloudResp(GetAllAnswers(FewLists, FewProgress))

SpecDup == InitDup /\ [][NextDup]_vars


\* ========================================================================
\* Two browsers, each with its own cache and its own object WorkOrderSync,
\* on the endpoint of chat.js
\* ========================================================================

Other(c) == IF c = "A" THEN "B" ELSE "A"

\* the non-empty caches the two clients start from
TwoLists ==
    {<<[woNumber |-> "W1", rev |-> 1]>>,
     <<[woNumber |-> "W1", rev |-> 2]>>,
     <<[woNumber |-> "W1", rev |-> 1], [woNumber |-> "W2", rev |-> 1]>>}

\* the next step is taken in the other browser
Switch ==
    /\ me' = Other(me)
    /\ peer' = [workOrders |-> workOrders, progressData |-> progressData,
                lastSync |-> lastSync, syncInProgress |-> syncInProgress,
                syncs |-> syncs]
    /\ workOrders' = peer.workOrders
    /\ progressData' = peer.progressData
    /\ lastSync' = peer.lastSync
    /\ syncInProgress' = peer.syncInProgress
    /\ syncs' = peer.syncs
    /\ ret' = Call("switch", "browser", "", {})
    /\ UNCHANGED <<enabled, sheetUrl, interval, syncTimer, armed, timeouts, online,
                   pulls, pushes, progReqs, since>>
    /\ UNCHANGED <<clsVars, endpoint, calls, auxVars>>

\* the getAll of sync() is answered from the spreadsheet, or fails
NetSyncGetAllResp ==
    SyncGetAllResp({ChGetAllData(endpoint)} \cup GetAllAnswers({}, {}))

\* what doPost has done to the spreadsheet when the client sees answer a to
\* its fullSync post: success; an exception in the handler, before or after
\* syncWorkOrders deleted the rows; a transport failure, of the request or
\* of the answer
FullSyncOutcomes(r, a, list, pd) ==
    IF a = Ok THEN {ChFullSync(r, list, pd)}
    ELSE IF a = AppFail THEN {r, [Stamped(r) EXCEPT !.wo = <<>>, !.li = <<>>]}
    ELSE {r, ChFullSync(r, list, pd)}

\* the fullSync post of sync() is handled and answered
NetSyncFullSyncResp ==
    \E i \in 1..Len(syncs), a \in PostAnswers :
        \E r \in FullSyncOutcomes(endpoint, a, syncs[i].mwo, syncs[i].mpd) :
            /\ syncAfterFullSync(i, a)
            /\ endpoint' = r
            /\ UNCHANGED <<netVars, calls, auxVars>>

InitTwo ==
    /\ endpoint = EmptySheets(ChScript)
    /\ me = "A"
    /\ calls = <<>>
    /\ InitAux
    /\ workOrders \in TwoLists
    /\ peer \in {Client(wos) : wos \in TwoLists}
    /\ progressData = EmptyProgress
    /\ enabled = TRUE
    /\ sheetUrl = "URL"
    /\ interval = "manual"
    /\ lastSync = 0
    /\ syncInProgress = FALSE
    /\ syncTimer = 0
    /\ armed = ArmedBy(syncTimer)
    /\ timeouts = <<>>
    /\ online = TRUE
    /\ syncs = <<>>
    /\ pulls = 0
    /\ pushes = 0
    /\ progReqs = <<>>
    /\ useGoogleSheets = FALSE
    /\ clsLastSync = 0
    /\ pendingWorkOrderSync = {}
    /\ pendingProgressSync = {}
    /\ clsOps = <<>>
    /\ since = [save |-> DebounceDelay, mutation |-> DebounceDelay]
    /\ ret = Call("init", "load", "", {})

NextTwo ==
    \/ CallSync
    \/ NetSyncGetAllResp
    \/ NetSyncFullSyncResp
    \/ Switch

SpecTwo == InitTwo /\ [][NextTwo]_vars


\* ========================================================================
\* Line items and progress records: what the summarizers compute from them
\* ========================================================================

\* the substrings that make a line item a labor item for getSummary of the
\* class ProgressWidget, computeLocalSummary and getWorkOrderSummary
WordHour == <<"h", "o", "u", "r">>
WordLabor == <<"l", "a", "b", "o", "r">>
WordMan == <<"m", "a", "n">>

\* itemLower.includes('hour') || itemLower.includes('labor') ||
\* itemLower.includes('man')
IsLaborName(itemName) ==
    LET itemLower == toLowerCase(itemName)
    IN  \/ includes(itemLower, WordHour)
        \/ includes(itemLower, WordLabor)
        \/ includes(itemLower, WordMan)

\* progressItems.find(p => p.index === idx): the first such record in a
\* sequence of one element, <<>> if there is none
FindRecord(records, idx) ==
    LET hits == SelectSeq(records, LAMBDA p : p.index = idx)
    IN  IF hits = <<>> THEN <<>> ELSE <<Head(hits)>>

\* a || b on the results of parseFloat: a unless it is NaN or 0
OrElse(a, b) == IF a # Absent /\ a # 0 THEN a ELSE b

\* parseFloat(prog.hoursUsed) || parseFloat(prog.quantityCompleted) || 0
HoursOf(prog) == OrElse(prog.hoursUsed, OrElse(prog.quantityCompleted, 0))

\* totalHours after the first n line items: the quantities of the labor items
RECURSIVE TotalHours(_, _)
TotalHours(h, n) ==
    IF n = 0 THEN 0
    ELSE TotalHours(h, n - 1)
         + (IF IsLaborName(h.items[n].itemName) THEN h.items[n].quantity ELSE 0)

\* usedHours after the first n line items: the hours of the progress
\* records of the labor items
RECURSIVE UsedHours(_, _)
UsedHours(h, n) ==
    IF n = 0 THEN 0
    ELSE UsedHours(h, n - 1)
         + (IF IsLaborName(h.items[n].itemName)
                /\ FindRecord(h.records, n - 1) # <<>>
            THEN HoursOf(FindRecord(h.records, n - 1)[1]) ELSE 0)

\* Math.max(0, x)
Max0(x) == IF x > 0 THEN x ELSE 0

\* Math.round(n / d * 100) for n >= 0 and d > 0
RoundPercent(n, d) == (200 * n + d) \div (2 * d)

\* progressItems.filter(p => p.status === 'completed').length
Completed(records) == Len(SelectSeq(records, LAMBDA p : p.status = "completed"))

\* mutant: a work order without line items counts as complete
PercentageOfNone(completed, totalItems) ==
    IF totalItems > 0 THEN RoundPercent(completed, totalItems) ELSE 100

\* totalItems > 0 ? Math.round((completed / totalItems) * 100) : 0
Percentage(completed, totalItems) ==
    IF totalItems > 0 THEN RoundPercent(completed, totalItems) ELSE 0

\* the words of /hour|labor|man|time|install/i
WordTime == <<"t", "i", "m", "e">>
WordInstall == <<"i", "n", "s", "t", "a", "l", "l">>

\* /hour|labor|man|time|install/i.test(item.itemName || '')
IsLaborItem(itemName) ==
    LET lower == toLowerCase(itemName)
    IN  \E word \in {WordHour, WordLabor, WordMan, WordTime, WordInstall} :
            includes(lower, word)

\* what one line item adds to completedItems, completedHours and totalHours
\* in getProgress of the object ProgressWidget and in getSummary of chat.js,
\* prog being <<>> or the one progress record of the item
ItemProgress(item, prog) ==
    LET isLaborItem == IsLaborItem(item.itemName)
        status == IF prog = <<>> THEN "" ELSE prog[1].status
    IN  [completedItems |-> IF status = "completed" THEN 1 ELSE 0,
         completedHours |->
             IF ~isLaborItem THEN 0
             ELSE IF status = "completed" THEN item.quantity
             ELSE IF status = "in-progress"
                  THEN OrElse(prog[1].quantityCompleted, 0)
             ELSE 0,
         totalHours |-> IF isLaborItem THEN item.quantity ELSE 0]

\* the fields of the object that the two summarizers build from the
\* contributions of the line items
ProgressTotals(woNumber, parts) ==
    LET totalItems == Len(parts)
        completedItems == Sum([n \in 1..Len(parts) |-> parts[n].completedItems])
        completedHours == Sum([n \in 1..Len(parts) |-> parts[n].completedHours])
        totalHours == Sum([n \in 1..Len(parts) |-> parts[n].totalHours])
    IN  [woNumber |-> woNumber,
         percentage |-> Percentage(completedItems, totalItems),
         totalItems |-> totalItems, completedItems |-> completedItems,
         totalHours |-> totalHours, usedHours |-> completedHours,
         remainingHours |-> totalHours - completedHours]

\* getProgress of the object ProgressWidget: the progress record of a line
\* item is the one at the item's position, progress?.items?.[index]
ObjectProgress(h, woNumber) ==
    ProgressTotals(woNumber,
        [n \in 1..Len(h.items) |->
            ItemProgress(h.items[n],
                         IF n <= Len(h.records) THEN <<h.records[n]>> ELSE <<>>)])

\* getSummary of chat.js: the progress record of a line item is the first
\* one with the item's index
ChSummary(h, woNumber) ==
    ProgressTotals(woNumber,
        [n \in 1..Len(h.items) |->
            ItemProgress(h.items[n], FindRecord(h.records, n - 1))])


\* ========================================================================
\* Reads of the cache when a stored text is not JSON
\* ========================================================================

StoreKeys == {"workOrders", "progressData", "pendingWorkOrderSync",
              "pendingProgressSync"}

\* the keys each read operation hands to JSON.parse
KeysRead(op) ==
    IF op \in {"getWorkOrders", "getLocalWorkOrders"} THEN {"workOrders"}
    ELSE IF op \in {"getProgressData", "getLocalProgress"} THEN {"progressData"}
    ELSE IF op \in {"getProgress", "sync"} THEN {"workOrders", "progressData"}
    ELSE IF op = "getPendingSyncs"
         THEN {"pendingWorkOrderSync", "pendingProgressSync"}
    ELSE {}

\* what a read returns: JSON.parse inside try/catch that returns the empty
\* collection (guarded), or JSON.parse with nothing around it
ReadResult(op, guarded) ==
    IF KeysRead(op) \cap garbled = {} THEN "value"
    ELSE IF guarded THEN "empty" ELSE "thrown"

readFrame ==
    UNCHANGED <<workOrders, progressData, objVars, clsVars, endpoint, netVars,
                calls, auxVars>>

\* another script of the page, or the user, stores text that is not JSON
\* under a key, while no sync() is suspended
Garble ==
    \E k \in StoreKeys :
        /\ syncs = <<>>
        /\ k \notin garbled
        /\ garbled' = garbled \cup {k}
        /\ ret' = Call("setItem", "storage", "", {k})
        /\ UNCHANGED <<workOrders, progressData, objVars, clsVars, endpoint,
                       netVars, calls, cache, hours, sideVars>>

\* WorkOrderSync.getWorkOrders() of the object
GetWorkOrders ==
    LET r == ReadResult("getWorkOrders", TRUE)
    IN  /\ ret' = [Call("getWorkOrders", "read", r, {}) EXCEPT
                       !.got = IF r = "value" THEN workOrders ELSE <<>>]
        /\ readFrame

\* WorkOrderSync.getProgressData() of the object
GetProgressData ==
    /\ ret' = Call("getProgressData", "read", ReadResult("getProgressData", TRUE), {})
    /\ readFrame

\* getLocalWorkOrders() of the class
GetLocalWorkOrders ==
    LET r == ReadResult("getLocalWorkOrders", TRUE)
    IN  /\ ret' = [Call("getLocalWorkOrders", "read", r, {}) EXCEPT
                       !.got = IF r = "value" THEN workOrders ELSE <<>>]
        /\ readFrame

\* getLocalProgress() of the class
GetLocalProgress ==
    /\ ret' = Call("getLocalProgress", "read", ReadResult("getLocalProgress", TRUE), {})
    /\ readFrame

\* ProgressWidget.getProgress(woNumber): both keys are parsed first
WidgetGetProgress ==
    \E w \in WoIds :
        LET r == ReadResult("getProgress", FALSE)
            found == w \in WoNumbers(workOrders)
        IN  /\ ret' = [Call("getProgress", "read",
                            IF r = "value" /\ ~found THEN "null" ELSE r, {w})
                       EXCEPT !.got = IF r = "value" /\ found
                                      THEN <<ObjectProgress(hours, w)>>
                                      ELSE <<>>]
            /\ readFrame

\* getPendingSyncs() of the class
GetPendingSyncs ==
    /\ ret' = Call("getPendingSyncs", "read", ReadResult("getPendingSyncs", FALSE), {})
    /\ readFrame

InitRead ==
    /\ enabled = TRUE
    /\ sheetUrl = "URL"
    /\ interval = "manual"
    /\ InitObj(FewLists, FewProgress)

NextRead ==
    \/ Garble
    \/ CallSync
    \/ SyncGetAllResp(GetAllAnswers(FewLists, FewProgress))
    \/ SyncFullSyncResp
    \/ GetWorkOrders
    \/ GetProgressData
    \/ GetLocalWorkOrders
    \/ GetLocalProgress
    \/ WidgetGetProgress
    \/ GetPendingSyncs

SpecRead == InitRead /\ [][NextRead]_vars


\* ========================================================================
\* Class ProgressWidget (src/unnamed/part_004), constructed on the class
\* WorkOrderSync
\* ========================================================================

\* what getLocalWorkOrders() and getLocalProgress() hand to the widget
LocalWorkOrders == IF "workOrders" \in garbled THEN <<>> ELSE workOrders
LocalProgress == IF "progressData" \in garbled THEN EmptyProgress ELSE progressData

\* workOrders.find(w => w.woNumber === woNumber): the first one, 0 if none
Find(list, woNumber) ==
    IF \E i \in 1..Len(list) : list[i].woNumber = woNumber
    THEN CHOOSE i \in 1..Len(list) :
             /\ list[i].woNumber = woNumber
             /\ \A j \in 1..(i - 1) : list[j].woNumber # woNumber
    ELSE 0

\* the summary object: what it takes from the work order and what it takes
\* from the progress of the work order
Summary(list, pd, woNumber) ==
    LET totalHours == TotalHours(hours, Len(hours.items))
        usedHours == UsedHours(hours, Len(hours.items))
        totalItems == Len(hours.items)
        completed == Completed(hours.records)
    IN  [woNumber |-> woNumber, rev |-> list[Find(list, woNumber)].rev,
         progress |-> pd[woNumber],
         percentage |-> Percentage(completed, totalItems),
         totalItems |-> totalItems, completedItems |-> completed,
         totalHours |-> totalHours, usedHours |-> usedHours,
         remainingHours |-> Max0(totalHours - usedHours)]

\* "Check cache": the entry is there and younger than cacheTimeout
CacheHit(woNumber) ==
    cache[woNumber] # <<>> /\ cache[woNumber][1].age < CacheTimeout

widgetFrame ==
    UNCHANGED <<workOrders, progressData, objVars, clsVars, endpoint, netVars,
                calls, garbled, hours, sideVars>>

\* ---- getSummary(woNumber)
WidgetGetSummary ==
    \E w \in WoIds :
        /\ IF CacheHit(w)
           THEN /\ ret' = [Call("getSummary", "widget", "cached", {w}) EXCEPT
                               !.got = <<cache[w][1].data>>]
                /\ UNCHANGED cache
           ELSE IF Find(LocalWorkOrders, w) = 0
           THEN /\ ret' = Call("getSummary", "widget", "null", {w})
                /\ UNCHANGED cache
           ELSE LET summary == Summary(LocalWorkOrders, LocalProgress, w)
                IN  /\ cache' = [cache EXCEPT ![w] = <<[data |-> summary, age |-> 0]>>]
                    /\ ret' = [Call("getSummary", "widget", "computed", {w}) EXCEPT
                                   !.got = <<summary>>]
        /\ widgetFrame

\* ---- clearCache(woNumber) and clearCache()
WidgetClearCache ==
    \E which \in WoIds \cup {Undefined} :
        /\ cache' = IF which = Undefined THEN [w \in WoIds |-> <<>>]
                    ELSE [cache EXCEPT ![which] = <<>>]
        /\ cache' # cache
        /\ ret' = Call("clearCache", "widget", "none", {which})
        /\ widgetFrame

\* ten seconds pass on Date.now()
WidgetTick ==
    /\ \E w \in WoIds : CacheHit(w)
    /\ cache' = [w \in WoIds |->
                    IF CacheHit(w)
                    THEN <<[cache[w][1] EXCEPT !.age = @ + 1]>>
                    ELSE cache[w]]
    /\ ret' = Call("tick", "clock", "", {})
    /\ widgetFrame

NextWidget ==
    \/ WidgetGetSummary
    \/ WidgetClearCache
    \/ WidgetTick
    \/ ClsSaveWorkOrders(FewLists)
    \/ ClsUpdateProgress
    \/ ClsPostResp

SpecWidget == InitCls /\ [][NextWidget]_vars


\* ========================================================================
\* The summarizers: getSummary of the class ProgressWidget,
\* computeLocalSummary of the class WorkOrderSync, getWorkOrderSummary of
\* Code.gs
\* ========================================================================

\* the summary array of computeLocalSummary() and of getWorkOrderSummary():
\* one object per work order
SummaryRows(list, h) ==
    LET totalHours == TotalHours(h, Len(h.items))
        usedHours == UsedHours(h, Len(h.items))
        totalItems == Len(h.items)
        completed == Completed(h.records)
    IN  [i \in 1..Len(list) |->
            [woNumber |-> list[i].woNumber,
             percentage |-> Percentage(completed, totalItems),
             totalItems |-> totalItems, completedItems |-> completed,
             totalHours |-> totalHours, usedHours |-> usedHours,
             remainingHours |-> totalHours - usedHours]]

hoursFrame ==
    UNCHANGED <<workOrders, progressData, objVars, clsVars, endpoint, netVars,
                calls, garbled, cache, sideVars>>

\* a work order is saved with other line items
EnterLineItems(lists) ==
    \E items \in lists :
        /\ items # hours.items
        /\ hours' = [hours EXCEPT !.items = items]
        /\ ret' = Call("lineItems", "input", "", {})
        /\ hoursFrame

\* other progress records are stored for the work order
EnterProgress(lists) ==
    \E records \in lists :
        /\ records # hours.records
        /\ hours' = [hours EXCEPT !.records = records]
        /\ ret' = Call("progress", "input", "", {})
        /\ hoursFrame

\* ---- computeLocalSummary() of the class WorkOrderSync
ComputeLocalSummary ==
    /\ ret' = [Call("computeLocalSummary", "call", "success", {}) EXCEPT
                   !.got = SummaryRows(LocalWorkOrders, hours)]
    /\ UNCHANGED hours
    /\ hoursFrame

\* ---- doGet of Code.gs, action getSummary: getWorkOrderSummary()
GsGetWorkOrderSummary ==
    /\ endpoint.script = GsScript
    /\ ret' = [op |-> "getWorkOrderSummary", via |-> "doGet", answer |-> Ok,
               result |-> "answered", ids |-> {},
               got |-> SummaryRows(endpoint.wo, hours)]
    /\ UNCHANGED hours
    /\ hoursFrame

\* ---- doGet of chat.js, action getSummary: getSummary(woNumber)
ChGetSummary ==
    \E w \in WoIds :
        /\ endpoint.script = ChScript
        /\ ret' = IF w \in WoNumbers(endpoint.wo)
                  THEN [Failing("doGet", "getSummary", Json("true", FALSE), FALSE, w)
                        EXCEPT !.got = <<ChSummary(hours, w)>>]
                  ELSE Failing("doGet", "getSummary", Json("false", TRUE), TRUE, w)
        /\ UNCHANGED hours
        /\ hoursFrame

\* work order W1 is in the cache and, after a push, in the sheet of the
\* deployed script; nothing is in flight
InitSummary ==
    /\ workOrders = <<[woNumber |-> "W1", rev |-> 1]>>
    /\ endpoint \in {GsSaveWorkOrders(EmptySheets(GsScript), workOrders),
                     ChSyncWorkOrders(EmptySheets(ChScript), workOrders)}
    /\ me = "A"
    /\ peer = Client(<<>>)
    /\ calls = <<>>
    /\ InitAux
    /\ progressData = EmptyProgress
    /\ enabled = TRUE
    /\ sheetUrl = "URL"
    /\ interval = "manual"
    /\ lastSync = 0
    /\ syncInProgress = FALSE
    /\ syncTimer = 0
    /\ armed = ArmedBy(syncTimer)
    /\ timeouts = <<>>
    /\ online = TRUE
    /\ syncs = <<>>
    /\ pulls = 0
    /\ pushes = 0
    /\ progReqs = <<>>
    /\ useGoogleSheets = TRUE
    /\ clsLastSync = 0
    /\ pendingWorkOrderSync = {}
    /\ pendingProgressSync = {}
    /\ clsOps = <<>>
    /\ since = [save |-> DebounceDelay, mutation |-> DebounceDelay]
    /\ ret = Call("init", "load", "", {})

\* SpecHours: the hours of the summaries, over few quantities and hours
NextHours ==
    \/ EnterLineItems(LineItemLists)
    \/ EnterProgress(HoursUsed)
    \/ WidgetGetSummary
    \/ WidgetClearCache
    \/ ComputeLocalSummary
    \/ GsGetWorkOrderSummary

SpecHours == InitSummary /\ [][NextHours]_vars


\* progress records whose hoursUsed and quantityCompleted are given, zero or
\* left out, for the first line item and for one that is not there
UsedRecords ==
    {<<>>} \cup
    {<<ProgressRecord(idx, "in-progress", hu, qc)>> :
        idx \in {0, 1}, hu \in {Absent, 0, 3}, qc \in {Absent, 2}}

\* SpecUsed: the hours the summaries take from the progress records
NextUsed ==
    \/ EnterLineItems(LineItemLists)
    \/ EnterProgress(UsedRecords)
    \/ WidgetGetSummary
    \/ WidgetClearCache
    \/ ComputeLocalSummary
    \/ GsGetWorkOrderSummary

SpecUsed == InitSummary /\ [][NextUsed]_vars


\* line items by name: the two spellings of "INSTALL Labor", names with one
\* of the words of the summarizers, names with none, and no name
NamedLineItems ==
    {<<>>} \cup
    {<<LineItem(name, 2)>> :
        name \in {NameInstallLaborUpper, NameInstallLaborLower, NameManHours,
                  NameMulch, NameInstallSod, NameOvertime, NameNone}} \cup
    {<<LineItem(NameMulch, 1), LineItem(NameLabor, 2)>>}

\* SpecLabor: which line items the five summarizers count as hours
NextLabor ==
    \/ EnterLineItems(NamedLineItems)
    \/ EnterProgress(UsedRecords)
    \/ WidgetGetSummary
    \/ WidgetClearCache
    \/ ComputeLocalSummary
    \/ GsGetWorkOrderSummary
    \/ WidgetGetProgress
    \/ ChGetSummary

SpecLabor == InitSummary /\ [][NextLabor]_vars


\* progress records by status: none, one or two, for the first two line
\* items, two of them possibly for the same item
StatusRecords ==
    LET one == {ProgressRecord(idx, status, Absent, Absent) :
                   idx \in {0, 1}, status \in {"completed", "in-progress"}}
    IN  {<<>>} \cup {<<p>> : p \in one} \cup {<<p, q>> : p \in one, q \in one}

\* SpecPercent: the percentage the summaries take from the statuses
NextPercent ==
    \/ EnterLineItems(LineItemLists)
    \/ EnterProgress(StatusRecords)
    \/ WidgetGetSummary
    \/ WidgetClearCache
    \/ ComputeLocalSummary
    \/ GsGetWorkOrderSummary

SpecPercent == InitSummary /\ [][NextPercent]_vars


\* ========================================================================
\* ChatManager of src/js/chat.js: the keyword router
\* ========================================================================

\* this.toolKeywords, the tools in the order of their declaration
toolKeywords == <<
    [toolId |-> "inventory",
     keywords |-> <<
            <<"i", "n", "v", "e", "n", "t", "o", "r", "y">>,
            <<"s", "t", "o", "c", "k">>,
            <<"p", "l", "a", "n", "t", "s">>,
            <<"s", "u", "p", "p", "l", "i", "e", "s">>,
            <<"m", "a", "t", "e", "r", "i", "a", "l", "s">>,
            <<"c", "l", "i", "p", "p", "i", "n", "g", "s">>,
            <<"s", "e", "a", "r", "c", "h">>,
            <<"f", "i", "n", "d">>,
            <<"b", "o", "x", "w", "o", "o", "d">>,
            <<"m", "u", "l", "c", "h">>,
            <<"f", "e", "r", "t", "i", "l", "i", "z", "e", "r">>,
            <<"b", "r", "o", "w", "s", "e">>,
            <<"l", "i", "s", "t", " ", "a", "l", "l">>,
            <<"s", "h", "o", "w", " ", "a", "l", "l">>>>],
    [toolId |-> "grading",
     keywords |-> <<
            <<"g", "r", "a", "d", "e">>,
            <<"q", "u", "a", "l", "i", "t", "y">>,
            <<"a", "s", "s", "e", "s", "s">>,
            <<"e", "v", "a", "l", "u", "a", "t", "i", "o", "n">>,
            <<"s", "e", "l", "l">>,
            <<"p", "r", "i", "c", "i", "n", "g">>,
            <<"c", "o", "n", "d", "i", "t", "i", "o", "n">>,
            <<"v", "a", "l", "u", "e">>>>],
    [toolId |-> "scheduler",
     keywords |-> <<
            <<"s", "c", "h", "e", "d", "u", "l", "e">>,
            <<"c", "a", "l", "e", "n", "d", "a", "r">>,
            <<"c", "r", "e", "w">>,
            <<"t", "a", "s", "k">>,
            <<"a", "p", "p", "o", "i", "n", "t", "m", "e", "n", "t">>,
            <<"p", "l", "a", "n">>,
            <<"a", "s", "s", "i", "g", "n">>,
            <<"d", "a", "i", "l", "y">>,
            <<"t", "o", "m", "o", "r", "r", "o", "w">>>>],
    [toolId |-> "tools",
     keywords |-> <<
            <<"t", "o", "o", "l", "s">>,
            <<"r", "e", "n", "t", "a", "l">>,
            <<"c", "h", "e", "c", "k", "o", "u", "t">>,
            <<"e", "q", "u", "i", "p", "m", "e", "n", "t">>,
            <<"b", "o", "r", "r", "o", "w">>,
            <<"r", "e", "t", "u", "r", "n">>,
            <<"m", "a", "i", "n", "t", "e", "n", "a", "n", "c", "e">>>>],
    [toolId |-> "logistics",
     keywords |-> <<
            <<"l", "o", "g", "i", "s", "t", "i", "c", "s">>,
            <<"t", "r", "a", "n", "s", "p", "o", "r", "t", "a", "t", "i", "o", "n">>,
            <<"p", "r", "o", "c", "u", "r", "e", "m", "e", "n", "t">>,
            <<"e", "m", "e", "r", "g", "e", "n", "c", "y">>,
            <<"e", "r", "r", "a", "n", "d">>,
            <<"d", "e", "l", "i", "v", "e", "r", "y">>,
            <<"r", "o", "u", "t", "e">>,
            <<"s", "h", "i", "p", "p", "i", "n", "g">>,
            <<"t", "r", "a", "n", "s", "p", "o", "r", "t">>,
            <<"d", "i", "s", "p", "a", "t", "c", "h">>>>],
    [toolId |-> "chessmap",
     keywords |-> <<
            <<"c", "r", "e", "w">>,
            <<"l", "o", "c", "a", "t", "i", "o", "n">>,
            <<"m", "a", "p">>,
            <<"c", "h", "e", "s", "s">>,
            <<"t", "r", "a", "c", "k", "i", "n", "g">>,
            <<"c", "o", "o", "r", "d", "i", "n", "a", "t", "e", "s">>,
            <<"p", "r", "o", "x", "i", "m", "i", "t", "y">>,
            <<"n", "e", "a", "r", "e", "s", "t">>,
            <<"c", "l", "o", "s", "e", "s", "t">>,
            <<"t", "e", "a", "m">>,
            <<"p", "o", "s", "i", "t", "i", "o", "n">>,
            <<"w", "h", "e", "r", "e">>,
            <<"l", "o", "c", "a", "t", "e">>,
            <<"f", "i", "n", "d", " ", "c", "r", "e", "w">>,
            <<"c", "r", "e", "w", " ", "m", "a", "p">>,
            <<"w", "h", "o", " ", "i", "s", " ", "c", "l", "o", "s", "e", "s", "t">>>>]>>

\* String.prototype.split(/\s+/): the pieces between the runs of blanks, the
\* piece before a leading run and the one after a trailing run being empty
RECURSIVE SplitAt(_, _, _, _)
SplitAt(str, i, piece, pieces) ==
    IF i > Len(str) THEN Append(pieces, piece)
    ELSE IF str[i] = " "
         THEN IF i > 1 /\ str[i - 1] = " "
              THEN SplitAt(str, i + 1, piece, pieces)
              ELSE SplitAt(str, i + 1, <<>>, Append(pieces, piece))
    ELSE SplitAt(str, i + 1, Append(piece, str[i]), pieces)

split(str) == SplitAt(str, 1, <<>>, <<>>)

\* Array.prototype.includes
Contains(array, x) == \E i \in 1..Len(array) : array[i] = x

\* what one keyword adds to the score of its tool
KeywordScore(messageLower, keyword) ==
    IF includes(messageLower, keyword)
    THEN IF Contains(split(messageLower), keyword) THEN 2 ELSE 1
    ELSE 0

\* scores[toolId] of the n-th tool
ToolScore(messageLower, n) ==
    LET keywords == toolKeywords[n].keywords
    IN  Sum([k \in 1..Len(keywords) |-> KeywordScore(messageLower, keywords[k])])

\* Object.entries(scores).reduce(...) over the first n tools, from
\* {toolId: 'general', score: 0}: a later tool replaces the best one only
\* with a greater score
RECURSIVE BestMatch(_, _)
BestMatch(messageLower, n) ==
    IF n = 0 THEN [toolId |-> "general", score |-> 0]
    ELSE LET best == BestMatch(messageLower, n - 1)
             score == ToolScore(messageLower, n)
         IN  IF score > best.score
             THEN [toolId |-> toolKeywords[n].toolId, score |-> score]
             ELSE best

\* extractMatchingKeywords(message, toolId)
extractMatchingKeywords(message, toolId) ==
    LET messageLower == toLowerCase(message)
        n == CHOOSE i \in 1..Len(toolKeywords) : toolKeywords[i].toolId = toolId
    IN  SelectSeq(toolKeywords[n].keywords, LAMBDA keyword : includes(messageLower, keyword))

\* Math.min(score / 5, 1), in fifths
Confidence(score) == IF score < 5 THEN score ELSE 5

\* determineToolRoute(message); confidence is counted in fifths
determineToolRoute(message) ==
    LET messageLower == toLowerCase(message)
        bestMatch == BestMatch(messageLower, Len(toolKeywords))
    IN  IF bestMatch.score >= 2
        THEN [toolId |-> bestMatch.toolId,
              confidence |-> Confidence(bestMatch.score),
              keywords |-> extractMatchingKeywords(message, bestMatch.toolId)]
        ELSE [toolId |-> "general", confidence |-> 0, keywords |-> <<>>]

\* the words of the messages
Vocabulary ==
    {<<"h", "i">>,
     <<"s", "t", "o", "c", "k">>,
     <<"p", "l", "a", "n", "t", "s">>,
     <<"c", "r", "e", "w">>,
     <<"F", "i", "n", "d">>,
     <<"r", "e", "s", "t", "o", "c", "k">>,
     <<"m", "u", "l", "c", "h", "?">>,
     <<"i", "n", "v", "e", "n", "t", "o", "r", "y">>}

\* the messages: one to three words with one blank between them
Messages ==
    Vocabulary
    \cup {a \o <<" ">> \o b : a \in Vocabulary, b \in Vocabulary}
    \cup {a \o <<" ">> \o b \o <<" ">> \o c :
            a \in Vocabulary, b \in Vocabulary, c \in {<<"c", "r", "e", "w">>,
                                                       <<"s", "t", "o", "c", "k">>}}

\* nothing of the cache, the sync objects and the endpoint changes
idleFrame ==
    UNCHANGED <<workOrders, progressData, objVars, clsVars, endpoint, netVars,
                calls, garbled, cache, hours>>

\* ---- the user types a message into chatInput
TypeMessage ==
    \E message \in Messages :
        /\ message # chat.input
        /\ chat' = [chat EXCEPT !.input = message]
        /\ ret' = Call("chatInput", "input", "", {})
        /\ UNCHANGED <<app, repair>>
        /\ idleFrame

\* ---- determineToolRoute(message) on the message typed
DetermineToolRoute ==
    /\ chat.input # <<>>
    /\ ret' = [op |-> "determineToolRoute", via |-> "call",
               answer |-> determineToolRoute(chat.input), result |-> "",
               ids |-> {}, got |-> <<chat.input>>]
    /\ UNCHANGED sideVars
    /\ idleFrame

\* SpecRoute: the router applied to the messages
NextRoute ==
    \/ TypeMessage
    \/ DetermineToolRoute

SpecRoute == InitSummary /\ [][NextRoute]_vars


\* ========================================================================
\* The chat of the dashboard (src/js/app.js) and the proxy (src/unnamed/part_005)
\* ========================================================================

\* Array.prototype.slice(-n): the last n entries, all of them if fewer
Slice(array, n) ==
    IF Len(array) <= n THEN array ELSE SubSeq(array, Len(array) - n + 1, Len(array))

\* what fetch('/api/chat') comes to: the proxy answers {success, message},
\* answers 200 without a message, answers 429, 503 or another status, or the
\* request fails at network level
ChatAnswers == {"message", "nomessage", "429", "503", "500", "neterr"}

\* exports.handler of the proxy: the messages it sends on
ProxyMessages(conversationHistory) == Append(Slice(conversationHistory, 10), "user")

\* ---- sendChatMessage(): the user entry is pushed, then callChatAPI posts
\* the message with the last entries of the history
SendChatMessage ==
    /\ Len(app.requests) < MaxInflight
    /\ Len(app.conversationHistory) < MaxHistory
    /\ LET history == Append(app.conversationHistory, "user")
       IN  app' = [conversationHistory |-> history,
                   requests |-> Append(app.requests,
                                       [conversationHistory |-> Slice(history, 10)])]
    /\ ret' = Call("sendChatMessage", "chat", "pending", {})
    /\ UNCHANGED <<chat, repair>>
    /\ idleFrame

\* the history after the assistant's answer is pushed: "Keep history
\* manageable"
PushAssistant(conversationHistory) ==
    LET history == Append(conversationHistory, "assistant")
    IN  IF Len(history) > 20 THEN Slice(history, 20) ELSE history

\* ---- callChatAPI(message) after its await: only an answer with a message
\* is added to the history
CallChatAPIResp ==
    \E i \in 1..Len(app.requests), a \in ChatAnswers :
        /\ app' = [conversationHistory |->
                       IF a = "message" THEN PushAssistant(app.conversationHistory)
                       ELSE app.conversationHistory,
                   requests |-> RemoveAt(app.requests, i)]
        /\ ret' = [Call("callChatAPI", "chat", a, {}) EXCEPT
                       !.got = ProxyMessages(app.requests[i].conversationHistory)]
        /\ UNCHANGED <<chat, repair>>
        /\ idleFrame

\* SpecChat: exchanges of the dashboard chat with the proxy
NextChat ==
    \/ SendChatMessage
    \/ CallChatAPIResp

SpecChat == InitSummary /\ [][NextChat]_vars


\* ========================================================================
\* The chat managers: class ChatManager of src/chat.js and of src/js/chat.js
\* ========================================================================

\* the texts sendMessage is called with: none and some
Texts == {"", "hello"}

\* mutant: the busy flag is not looked at
BusyNever(flag) == FALSE

\* "if (... this.isProcessing) return" and "if (this.isTyping) return"
Busy(flag) == flag

\* ---- sendMessage(text) of src/chat.js up to its await: without an API key
\* the fallback answer is shown and the call finishes at once
ChSendMessage ==
    \E text \in Texts, apiKey \in BOOLEAN :
        /\ Len(chat.messages) < MaxMessages
        /\ IF text = "" \/ Busy(chat.isProcessing)
           THEN /\ ret' = Call("sendMessage", "chat.js", "dropped", {})
                /\ UNCHANGED chat
           ELSE IF apiKey
           THEN /\ chat' = [chat EXCEPT !.isProcessing = TRUE,
                                        !.messages = Append(@, "user"),
                                        !.calling = Append(@, text)]
                /\ ret' = Call("sendMessage", "chat.js", "pending", {})
           ELSE /\ chat' = [chat EXCEPT !.isProcessing = FALSE,
                                        !.messages = Append(@, "user")]
                /\ ret' = Call("sendMessage", "chat.js", "fallback", {})
        /\ UNCHANGED <<app, repair>>
        /\ idleFrame

\* ---- sendMessage(text) of src/chat.js after callClaudeAPI: the answer is
\* shown, or fetch rejected, or the status was not ok and the catch block
\* shows the apology; then the flag is reset
CallClaudeAPIResp ==
    \E i \in 1..Len(chat.calling), a \in {"message", "status", "neterr"} :
        /\ chat' = [chat EXCEPT !.isProcessing = FALSE,
                                !.calling = RemoveAt(@, i)]
        /\ ret' = Resp("sendMessage", a, IF a = "message" THEN "success" ELSE "failed",
                       {}, <<>>)
        /\ UNCHANGED <<app, repair>>
        /\ idleFrame

\* ---- handleSendClick() and sendMessage(message) of src/js/chat.js up to
\* the await of processMessage
JsSendMessage ==
    \E text \in Texts \ {""} :
        /\ Len(chat.messageHistory) < 2 * MaxMessages
        /\ IF Busy(chat.isTyping)
           THEN /\ ret' = Call("sendMessage", "js/chat.js", "dropped", {})
                /\ UNCHANGED chat
           ELSE /\ chat' = [chat EXCEPT !.isTyping = TRUE,
                                        !.messageHistory = Append(@, "user"),
                                        !.processing = Append(@, text)]
                /\ ret' = Call("sendMessage", "js/chat.js", "pending", {})
        /\ UNCHANGED <<app, repair>>
        /\ idleFrame

\* ---- sendMessage(message) of src/js/chat.js after processMessage: the
\* typing indicator is hidden first, on the response and in the catch block,
\* then the assistant message is added
ProcessMessageResp ==
    \E i \in 1..Len(chat.processing), a \in {"response", "thrown"} :
        /\ chat' = [chat EXCEPT !.isTyping = FALSE,
                                !.messageHistory = Append(@, "assistant"),
                                !.processing = RemoveAt(@, i)]
        /\ ret' = Resp("sendMessage", a, IF a = "response" THEN "success" ELSE "failed",
                       {}, <<>>)
        /\ UNCHANGED <<app, repair>>
        /\ idleFrame

\* SpecBusy: the two chat managers under calls of sendMessage
NextBusy ==
    \/ ChSendMessage
    \/ CallClaudeAPIResp
    \/ JsSendMessage
    \/ ProcessMessageResp

SpecBusy == InitSummary /\ [][NextBusy]_vars


\* ========================================================================
\* Repair tickets (src/repair-tickets.gs)
\* ========================================================================

\* getTVDashboardData().data, which the module takes from the script it is
\* added to: an active and an inactive vehicle, a machine without a status
\* of its own and an attachment with one
FleetData ==
    [active |-> <<[assetNumber |-> "T1"]>>,
     inactive |-> <<[assetNumber |-> "T2"]>>,
     machinery |-> <<[assetNumber |-> "M1", status |-> ""]>>,
     attachments |-> <<[assetNumber |-> "A1", status |-> "Maintenance"]>>]

\* the asset ids tickets are created for: two of the fleet, one that is not
\* in the fleet, and none
TicketAssets == {"T1", "M1", "X1", ""}

\* mutant: every ticket counts as open
IsOpenAny(status) == TRUE

\* data[i][RT_COLS.STATUS] === 'OPEN'
IsOpen(status) == status = "OPEN"

\* getOpenRepairTicketAssetIds(): the asset ids of the rows that are OPEN
getOpenRepairTicketAssetIds(r) ==
    IF ~r.sheet THEN {}
    ELSE {r.rows[i].assetId : i \in {j \in 1..Len(r.rows) : IsOpen(r.rows[j].status)}}

\* a or, when a is the empty string, b
OrDefault(a, b) == IF a # "" THEN a ELSE b

\* getFleetItemsForRepair(): the items of the four groups
FleetItems(r) ==
    LET openTickets == getOpenRepairTicketAssetIds(r)
        Item(v, type, status) ==
            [id |-> v.assetNumber, type |-> type,
             status |-> IF v.assetNumber \in openTickets THEN "In Repair" ELSE status]
    IN  [i \in 1..Len(FleetData.active) |->
            Item(FleetData.active[i], "Vehicle", "Active")]
        \o [i \in 1..Len(FleetData.inactive) |->
            Item(FleetData.inactive[i], "Vehicle", "Inactive")]
        \o [i \in 1..Len(FleetData.machinery) |->
            Item(FleetData.machinery[i], "Machinery",
                 OrDefault(FleetData.machinery[i].status, "Active"))]
        \o [i \in 1..Len(FleetData.attachments) |->
            Item(FleetData.attachments[i], "Attachment",
                 OrDefault(FleetData.attachments[i].status, "Active"))]

\* getRepairTickets().data.open: the tickets whose status is not COMPLETED
OpenTickets(r) ==
    IF ~r.sheet THEN <<>>
    ELSE SelectSeq(r.rows, LAMBDA row : row.status # "COMPLETED")

\* the first row with the ticket id, 0 if there is none
TicketRow(r, ticketId) ==
    IF \E i \in 1..Len(r.rows) : r.rows[i].ticketId = ticketId
    THEN CHOOSE i \in 1..Len(r.rows) :
             /\ r.rows[i].ticketId = ticketId
             /\ \A j \in 1..(i - 1) : r.rows[j].ticketId # ticketId
    ELSE 0

\* ---- getFleetItemsForRepair(); the dashboard data may fail to load
GetFleetItemsForRepair ==
    \E loaded \in BOOLEAN :
        /\ ret' = [Call("getFleetItemsForRepair", "doPost",
                        IF loaded THEN "success" ELSE "failed", {})
                   EXCEPT !.got = IF loaded THEN FleetItems(repair) ELSE <<>>]
        /\ UNCHANGED sideVars
        /\ idleFrame

\* ---- getRepairTickets()
GetRepairTickets ==
    /\ ret' = [Call("getRepairTickets", "doPost", "success", {})
               EXCEPT !.got = OpenTickets(repair)]
    /\ UNCHANGED sideVars
    /\ idleFrame

\* ---- createRepairTicket(ticketData): the ticket id is the time of the
\* call in seconds, the same as the last one when both fall in one second
CreateRepairTicket ==
    \E assetId \in TicketAssets, now \in {repair.now, repair.now + 1} :
        /\ Len(repair.rows) < MaxTickets
        /\ now > 0
        /\ IF assetId = ""
           THEN /\ ret' = Call("createRepairTicket", "doPost", "failed", {})
                /\ UNCHANGED repair
           ELSE /\ repair' = [sheet |-> TRUE,
                              rows |-> Append(repair.rows,
                                              [ticketId |-> now, assetId |-> assetId,
                                               status |-> "OPEN", completed |-> 0]),
                              now |-> now]
                /\ ret' = Call("createRepairTicket", "doPost", "success", {now})
        /\ UNCHANGED <<app, chat>>
        /\ idleFrame

\* the ticket ids the two operations below are called with; 0 is none
TicketIds == 0..(MaxTickets + 1)

\* ---- completeRepairTicket(ticketId)
CompleteRepairTicket ==
    \E ticketId \in TicketIds :
        LET i == TicketRow(repair, ticketId)
        IN  /\ IF ticketId = 0 \/ ~repair.sheet \/ i = 0
               THEN /\ ret' = Call("completeRepairTicket", "doPost", "failed", {ticketId})
                    /\ UNCHANGED repair
               ELSE /\ repair' = [repair EXCEPT !.rows[i].status = "COMPLETED",
                                                !.rows[i].completed = repair.now]
                    /\ ret' = Call("completeRepairTicket", "doPost", "success", {ticketId})
            /\ UNCHANGED <<app, chat>>
            /\ idleFrame

\* ---- deleteRepairTicket(ticketId)
DeleteRepairTicket ==
    \E ticketId \in TicketIds :
        LET i == TicketRow(repair, ticketId)
        IN  /\ IF ticketId = 0 \/ ~repair.sheet \/ i = 0
               THEN /\ ret' = Call("deleteRepairTicket", "doPost", "failed", {ticketId})
                    /\ UNCHANGED repair
               ELSE /\ repair' = [repair EXCEPT !.rows = RemoveAt(@, i)]
                    /\ ret' = Call("deleteRepairTicket", "doPost", "success", {ticketId})
            /\ UNCHANGED <<app, chat>>
            /\ idleFrame

\* SpecRepair: the repair tickets under the five operations
NextRepair ==
    \/ GetFleetItemsForRepair
    \/ GetRepairTickets
    \/ CreateRepairTicket
    \/ CompleteRepairTicket
    \/ DeleteRepairTicket

SpecRepair == InitSummary /\ [][NextRepair]_vars


\* ========================================================================
\* Properties
\* ========================================================================

\* the entries of a work-order array stored under woNumber x
Stored(list, x) == SelectSeq(list, LAMBDA wo : wo.woNumber = x)

\* the last step was the continuation of op after a remote answer
Answered(op) == ret.op = op /\ ret.via = "response"

\* C1: a work order the local cache holds is left unchanged by the step in
\* which pull(), or the pull phase of sync(), handles the answer to getAll.
\* pull() stores the answered array over the cache whatever the cache holds.
C1_PullKeepsLocalWorkOrders ==
    [][(Answered("pull") \/ Answered("sync"))' =>
          \A x \in WoIds :
              Stored(workOrders, x) # <<>> =>
                  Stored(workOrders', x) = Stored(workOrders, x)]_vars


\* C2: at most one sync() is in flight, and a sync() called while another
\* has not finished -- directly, by the settings event, by the interval
\* timer or by the debounce timer -- returns reason 'sync_in_progress',
\* issues no request and writes nothing to the cache.
C2_OneSyncInFlight ==
    /\ [](Len(syncs) <= 1)
    /\ [][(syncInProgress /\ ret'.op = "sync" /\ ret'.via # "response") =>
              /\ ret'.result = "sync_in_progress"
              /\ UNCHANGED <<syncs, pulls, pushes, progReqs, workOrders,
                             progressData, lastSync>>]_vars

\* the debounce timer fired while a sync() was waiting for its answer
C2_Witness ==
    /\ ret.op = "sync" /\ ret.via = "debounce"
    /\ ret.result = "sync_in_progress"
    /\ Len(syncs) = 1

\* C3: when every request is answered at last, a sync() that set
\* syncInProgress resets it, whether the requests succeed or fail.
C3_SyncingReturnsToIdle == syncInProgress ~> ~syncInProgress

\* a sync() ended in its catch block and the engine is idle
C3_Witness ==
    /\ Answered("sync") /\ ret.result = "failed" /\ ret.answer = AppFail
    /\ ~syncInProgress

\* C4: lastSync changes only in a step in which the remote confirmed success.
\* sync() does not read the answer to fullSync, so a {success:false} answer
\* moves lastSync as well.
C4_LastSyncOnlyAfterConfirmedSuccess ==
    [][lastSync' # lastSync => (ret'.via = "response" /\ ret'.answer = Ok)]_vars

\* C5: once a push of W's progress has succeeded, W is not in the
\* pending-progress set.  Nothing in the class removes an identifier from a
\* pending set.
C5_PendingClearedBySuccessfulPush ==
    (Answered("updateProgress") /\ ret.answer = Ok) =>
        ret.ids \cap pendingProgressSync = {}

\* C6: when the post that pushes work orders fails at transport level, every
\* woNumber of the batch is in the pending work-order set afterwards.
\* saveWorkOrders does so; syncToCloud (as pushWorkOrders and sync() of the
\* object) records nothing.
C6_FailedPushIsPending ==
    [][\A i \in 1..Len(clsOps) :
          ( /\ clsOps[i].pc = "saveWorkOrders"
            /\ clsOps' = RemoveAt(clsOps, i)
            /\ ret'.op = clsOps[i].op /\ ret'.via = "response"
            /\ ret'.answer = NetErr ) =>
          clsOps[i].ids \subseteq pendingWorkOrderSync']_vars

\* C7: when the local work orders are empty (as sync() read them at its
\* call; as pull() finds them when the answer arrives) and getAll answers
\* N > 0 work orders, the cache afterwards holds the answered array itself.
C7_EmptyLocalAdoptsRemote ==
    [][ /\ ( /\ (Answered("pull"))' /\ ret'.answer = Ok /\ ret'.got # <<>>
             /\ workOrders = <<>> ) => workOrders' = ret'.got
        /\ ( /\ (Answered("sync"))' /\ ret'.answer = Ok /\ ret'.got # <<>>
             /\ Len(syncs) = 1 /\ syncs[1].pc = "getAll"
             /\ syncs[1].wo = <<>> ) => workOrders' = ret'.got ]_vars

\* sync() read an empty cache, getAll answered two work orders, and the cache
\* holds them
C7_Witness ==
    /\ Answered("sync") /\ ret.answer = Ok /\ Len(ret.got) = 2
    /\ Len(syncs) = 1 /\ syncs[1].pc = "fullSync" /\ syncs[1].wo = <<>>
    /\ workOrders = ret.got

\* C8: the fullSync post of a sync() is issued only in the step that handles
\* a successful answer to the getAll of the same invocation: never while the
\* getAll is outstanding, and never after a failed getAll.
C8_PullCompletesBeforePush ==
    [][\A i \in 1..Len(syncs') :
          ( /\ syncs'[i].pc = "fullSync"
            /\ ~(i <= Len(syncs) /\ syncs[i].pc = "fullSync") ) =>
          /\ i <= Len(syncs) /\ syncs[i].pc = "getAll"
          /\ (Answered("sync"))' /\ ret'.answer = Ok]_vars

\* the push of a sync() is outstanding, issued when getAll answered success
C8_Witness ==
    /\ Len(syncs) = 1 /\ syncs[1].pc = "fullSync"
    /\ Answered("sync") /\ ret.answer = Ok /\ ret.result = "pending"

\* the step saved work orders or progress data
Mutated == ret.op \in {"saveWorkOrders", "saveProgressData"} \/ ret.via = "progressUpdated"

C10_ProgressIsLocalFirst ==
    [][ /\ ( /\ ret'.op = "updateProgress" /\ ret'.via = "call"
             /\ Len(clsOps') = Len(clsOps) + 1 ) =>
              \A w \in clsOps'[Len(clsOps')].ids :
                  progressData'[w] = clsOps'[Len(clsOps')].prog
        /\ (Answered("updateProgress"))' =>
              /\ progressData' = progressData
              /\ ret'.result = "success" ]_vars

\* the remote call of updateProgress failed; the cache holds the progress
C10_Witness ==
    /\ Answered("updateProgress") /\ ret.answer = NetErr /\ ret.result = "success"
    /\ ret.ids # {}
    /\ \A w \in ret.ids : progressData[w] \in Progs /\ w \in pendingProgressSync

\* no woNumber is stored under two entries of the array
Unique(list) ==
    \A i, j \in 1..Len(list) : list[i].woNumber = list[j].woNumber => i = j

\* C11: no two entries of the cached workOrders array have the same
\* woNumber.  saveWorkOrders of the object stores the array it is given as it
\* is, so a batch that names a work order twice is stored twice.
C11_WoNumberUnique == Unique(workOrders)

\* a sheet without its timestamp column
Unstamped(rows) == [i \in 1..Len(rows) |-> [woNumber |-> rows[i].woNumber, rev |-> rows[i].rev]]

\* the itemNames the LineItems sheet holds for woNumber x, in sheet order
SheetItems(rows, x) ==
    LET own == Stored(rows, x) IN [k \in 1..Len(own) |-> own[k].itemName]

C13_LastSyncWins ==
    [][ ( /\ me = "B" /\ peer.lastSync # 0
          /\ (Answered("sync"))' /\ ret'.result = "success"
          /\ Len(syncs) = 1 /\ syncs[1].wo # <<>> ) =>
        ChGetWorkOrders(endpoint') = syncs[1].wo ]_vars

\* C14: an operation whose request failed (transport failure, non-2xx
\* status, or an answer with success false) returns a value and throws
\* nothing.  initializeSheets logs the error and throws it again.
C14_NoErrorPropagates ==
    (ret.via = "response" /\ ret.answer # Ok) => ret.result # "thrown"

\* C15: every read of the cache yields the empty collection when the stored
\* text is not JSON, and its caller goes on as with an empty cache: no read
\* throws, and sync() does not fail on it
C15_GarbledCacheReadsAsEmpty ==
    /\ (ret.via = "read" /\ KeysRead(ret.op) \cap garbled # {}) =>
           ret.result = "empty"
    /\ (ret.op = "sync" /\ ret.via = "manual" /\ ret.answer = ""
            /\ KeysRead("sync") \cap garbled # {}) =>
           ret.result # "failed"

\* C16: a write whose woNumber is missing is rejected at once: the call
\* returns the rejection, no request is issued and the cache is not changed
C16_MissingFieldRejected ==
    [][ ( /\ ret'.op = "saveWorkOrders"
          /\ ret'.via = "call"
          /\ "" \in ret'.ids ) =>
        ( /\ ret'.result \notin {"pending", "success"}
          /\ clsOps' = clsOps
          /\ workOrders' = workOrders ) ]_vars

\* C17: every application-level error the endpoint answers -- unknown
\* action, work order not found, missing parameter, exception in a handler --
\* is JSON with success false and an error string
C17_ErrorsAreSuccessFalse ==
    (ret.via \in {"doGet", "doPost"} /\ ret.result = "error") =>
        (ret.answer.success = "false" /\ ret.answer.error)

\* C18: the getSummary(W) that follows a successful updateProgress for W is
\* computed from the progress just stored, also less than 30 seconds after
\* an earlier getSummary(W); and a summary comes from the cache only while
\* its entry is younger than 30 seconds
C18_SummaryFollowsProgress ==
    [][ \A w \in WoIds :
          ( /\ ret'.op = "getSummary" /\ ret'.via = "widget"
            /\ w \in ret'.ids
            /\ ret'.result \in {"cached", "computed"} ) =>
          /\ ( /\ ret.op = "updateProgress" /\ ret.result = "success"
               /\ ret.answer \in {"", Ok}
               /\ w \in ret.ids ) =>
                 ret'.got[1].progress = progressData[w]
          /\ ret'.result = "cached" => cache[w][1].age < CacheTimeout ]_vars

\* what C19 says of one state: at most one interval timer is armed, and one
\* is armed only when sync is enabled and the interval is a positive number
\* of minutes, for that number of minutes (none when 'manual' or disabled)
OneIntervalTimer ==
    /\ Len(armed) <= 1
    /\ armed # <<>> =>
           /\ enabled
           /\ interval # "manual"
           /\ ParseInt(interval) > 0
           /\ armed = <<ParseInt(interval)>>

\* C19: after init and any settings events, startAutoSync and stopAutoSync
\* calls at most one interval timer is armed, only for an enabled sync with
\* a positive interval, and every tick of it calls sync()
C19_OneIntervalTimer ==
    [][ /\ OneIntervalTimer
        /\ OneIntervalTimer'
        /\ ret'.via = "interval" => (armed # <<>> /\ ret'.op = "sync") ]_vars

\* a tick of the timer armed for 15 minutes by a settings event
C19_Witness ==
    /\ armed = <<15>>
    /\ syncTimer = 15
    /\ ret.via = "interval"
    /\ ret.op = "sync"
    /\ ret.result = "pending"

\* C20: every summary a summarizer reports has remainingHours =
\* max(0, totalHours - usedHours), which is never negative
C20_RemainingHoursNotNegative ==
    ( \/ ret.op \in {"computeLocalSummary", "getWorkOrderSummary"}
      \/ (ret.op = "getSummary" /\ ret.via = "widget") ) =>
    \A i \in 1..Len(ret.got) :
        /\ ret.got[i].remainingHours >= 0
        /\ ret.got[i].remainingHours =
               Max0(ret.got[i].totalHours - ret.got[i].usedHours)

\* a summary that was computed in this step, not taken from the widget's
\* cache
Summarized ==
    \/ ret.op \in {"computeLocalSummary", "getWorkOrderSummary"}
    \/ (ret.op = "getSummary" /\ ret.via = "widget" /\ ret.result = "computed")

\* the hours C21 gives to a progress record: hoursUsed when the record has
\* the field, quantityCompleted when it has not, 0 when it has neither
RecordHours(prog) ==
    IF prog.hoursUsed # Absent THEN prog.hoursUsed
    ELSE IF prog.quantityCompleted # Absent THEN prog.quantityCompleted
    ELSE 0

\* C21: usedHours is the sum, over the labor line items, of hoursUsed of the
\* progress record with the item's index, and of quantityCompleted only
\* when that record has no hoursUsed (hoursUsed = 0 counts as 0)
C21_UsedHoursPrefersHoursUsed ==
    Summarized =>
        \A i \in 1..Len(ret.got) :
            ret.got[i].usedHours =
                Sum([n \in 1..Len(hours.items) |->
                        IF IsLaborName(hours.items[n].itemName)
                            /\ FindRecord(hours.records, n - 1) # <<>>
                        THEN RecordHours(FindRecord(hours.records, n - 1)[1])
                        ELSE 0])

\* a step in which one of the five summarizers handed out its totals
Totalled ==
    \/ Summarized
    \/ (ret.op = "getProgress" /\ ret.via = "read" /\ ret.result = "value")
    \/ (ret.op = "getSummary" /\ ret.via = "doGet" /\ ret.result = "answered")

\* C22: in every summarizer a line item counts toward totalHours exactly when
\* its itemName contains "hour", "labor" or "man", whatever the case of the
\* letters: totalHours is the sum of the quantities of those items
C22_LaborByThreeWords ==
    Totalled =>
        \A i \in 1..Len(ret.got) :
            ret.got[i].totalHours =
                Sum([n \in 1..Len(hours.items) |->
                        IF IsLaborName(hours.items[n].itemName)
                        THEN hours.items[n].quantity ELSE 0])

\* C23: a summary never divides by zero: of a work order without line items
\* the percentage is the number 0, and when as many progress records are
\* 'completed' as there are line items, at least one, it is 100
C23_PercentageWithoutDivisionByZero ==
    Summarized =>
        \A i \in 1..Len(ret.got) :
            /\ ret.got[i].percentage \in Nat
            /\ Len(hours.items) = 0 => ret.got[i].percentage = 0
            /\ (Len(hours.items) > 0 /\ Completed(hours.records) = Len(hours.items))
                   => ret.got[i].percentage = 100

\* a summary of a work order that has completed records and no line items
C23_Witness ==
    /\ Summarized
    /\ Len(ret.got) > 0
    /\ hours.items = <<>>
    /\ Completed(hours.records) > 0
    /\ ret.got[1].percentage = 0

\* a summary of a work order with as many completed records as line items
C23_WitnessAllCompleted ==
    /\ Summarized
    /\ Len(ret.got) > 0
    /\ Len(hours.items) = 2
    /\ Completed(hours.records) = 2
    /\ ret.got[1].percentage = 100

\* C25: the percentage of a summary is an integer from 0 to 100, whatever
\* the line items and the progress records are
C25_PercentageWithinHundred ==
    Summarized =>
        \A i \in 1..Len(ret.got) : ret.got[i].percentage \in 0..100

\* a letter of the lower-cased message
IsLetter(c) == \E k \in 1..Len(LowerCase) : LowerCase[k] = c

\* the keyword, a single word, stands in the message between characters
\* that are not letters
WholeWord(messageLower, keyword) ==
    /\ ~includes(keyword, <<" ">>)
    /\ \E k \in Occurrences(messageLower, keyword) :
           /\ k > 0 => ~IsLetter(messageLower[k])
           /\ k + Len(keyword) < Len(messageLower)
                  => ~IsLetter(messageLower[k + Len(keyword) + 1])

\* the score of the n-th tool in the reference router
ReferenceScore(messageLower, n) ==
    LET keywords == toolKeywords[n].keywords
        whole == {k \in 1..Len(keywords) : WholeWord(messageLower, keywords[k])}
        part == {k \in 1..Len(keywords) :
                    includes(messageLower, keywords[k]) /\ k \notin whole}
    IN  2 * Cardinality(whole) + Cardinality(part)

\* the reference router: the first declared tool among those of the highest
\* score, 'general' below the threshold of 2
ReferenceRoute(message) ==
    LET messageLower == toLowerCase(message)
        tools == 1..Len(toolKeywords)
        n == CHOOSE i \in tools :
                 /\ \A j \in tools :
                        ReferenceScore(messageLower, j) <= ReferenceScore(messageLower, i)
                 /\ \A j \in 1..(i - 1) :
                        ReferenceScore(messageLower, j) < ReferenceScore(messageLower, i)
        score == ReferenceScore(messageLower, n)
    IN  IF score < 2 THEN [toolId |-> "general", confidence |-> 0]
        ELSE [toolId |-> toolKeywords[n].toolId,
              confidence |-> IF score >= 5 THEN 5 ELSE score]

\* C24: for every message determineToolRoute returns the tool and the
\* confidence of the reference router (2 points per keyword that is a whole
\* word of the lower-cased message, 1 per keyword that is only a substring,
\* the highest score wins, the first declared tool on ties, 'general' with
\* confidence 0 and no keywords below 2, else min(score/5, 1))
C24_RouteIsReferenceRoute ==
    ret.op = "determineToolRoute" =>
        /\ ret.answer.toolId = ReferenceRoute(ret.got[1]).toolId
        /\ ret.answer.confidence = ReferenceRoute(ret.got[1]).confidence
        /\ ret.answer.toolId = "general" => ret.answer.keywords = <<>>

\* C26: when the dashboard settings are saved with Work Order Sync disabled,
\* the sync module stops: config.enabled is false and no interval timer is
\* left armed, so that no later tick issues a request
C26_DisabledSaveStopsSync ==
    [][(ret'.op = "saveSettings" /\ ret'.result = "no_event")
          => (~enabled' /\ syncTimer' = 0 /\ armed' = <<>>)]_vars

\* C27: the syncProgress request sent after saveProgressData carries the
\* woNumber and the progress that were saved, never undefined
C27_ProgressRequestCarriesSaved ==
    \A i \in 1..Len(progReqs) :
        /\ progReqs[i].woNumber # Undefined
        /\ progReqs[i].progress # Undefined

\* C28: when no exchange of the dashboard chat is pending, the conversation
\* history holds at most 20 entries, whatever the answers of the proxy were;
\* and every request carries at most 10 entries of the history
C28_HistoryAtMostTwenty ==
    /\ app.requests = <<>> => Len(app.conversationHistory) <= 20
    /\ \A i \in 1..Len(app.requests) :
           Len(app.requests[i].conversationHistory) <= 10

\* no more than one message is being processed by either manager, and a
\* manager that processes none is not busy
OneAtATime ==
    /\ Len(chat.calling) <= 1
    /\ Len(chat.processing) <= 1
    /\ chat.calling = <<>> => ~chat.isProcessing
    /\ chat.processing = <<>> => ~chat.isTyping

InRepairIffOpenTicket ==
    (ret.op = "getFleetItemsForRepair" /\ ret.result = "success") =>
        \A n \in 1..Len(ret.got) :
            ret.got[n].status = "In Repair"
                <=> \E k \in 1..Len(OpenTickets(repair)) :
                        OpenTickets(repair)[k].assetId = ret.got[n].id

\* the rows that hold the ticket id
RowsOf(ticketId) == {i \in 1..Len(repair.rows) : repair.rows[i].ticketId = ticketId}

====
